---- MODULE Spec2Model ----
(***************************************************************************)
(* A model of the typed buffer-binding layer of the TileDB Go bindings     *)
(* (src/query.go, src/enums.go): the Query object, its pin table           *)
(* (q.buffers), its binding table (q.resultBufferElements), and the part   *)
(* of the storage engine's query object the bindings talk to.              *)
(***************************************************************************)
EXTENDS Integers, Sequences, FiniteSets, Bags, TLC

\* ------------------------------------------------------------------ bounds
\* Longest data slice a caller passes.
MaxLen == 2
\* Longest offsets slice a caller passes.
MaxOff == 1
\* Cap on the length of the pin table (q.buffers grows without limit).
MaxPins == 2
\* Most ranges a caller adds to one dimension.
MaxRanges == 2

\* --------------------------------------------------------- type registry
\* The Datatype enumeration of enums.go, and one of the datetime subtypes
\* query.go names in GetRange and Buffer.
Datatypes ==
    { "TILEDB_INT32", "TILEDB_INT64", "TILEDB_FLOAT32", "TILEDB_FLOAT64",
      "TILEDB_CHAR", "TILEDB_INT8", "TILEDB_UINT8", "TILEDB_INT16",
      "TILEDB_UINT16", "TILEDB_UINT32", "TILEDB_UINT64",
      "TILEDB_STRING_ASCII", "TILEDB_STRING_UTF8", "TILEDB_STRING_UTF16",
      "TILEDB_STRING_UTF32", "TILEDB_STRING_UCS2", "TILEDB_STRING_UCS4",
      "TILEDB_ANY", "TILEDB_DATETIME_YEAR" }

\* The reflect kinds a buffer's elements can have, as far as the code
\* tells them apart ("Interface" stands for every kind the switches send to
\* their default arm).
Kinds ==
    { "Int", "Int8", "Int16", "Int32", "Int64",
      "Uint", "Uint8", "Uint16", "Uint32", "Uint64",
      "Float32", "Float64", "Interface" }

\* Datatype.ReflectKind.
ReflectKind(d) ==
    CASE d = "TILEDB_INT8" -> "Int8"
      [] d = "TILEDB_INT16" -> "Int16"
      [] d = "TILEDB_INT32" -> "Int32"
      [] d = "TILEDB_INT64" -> "Int64"
      [] d = "TILEDB_UINT8" -> "Uint8"
      [] d = "TILEDB_UINT16" -> "Uint16"
      [] d = "TILEDB_UINT32" -> "Uint32"
      [] d = "TILEDB_UINT64" -> "Uint64"
      [] d = "TILEDB_FLOAT32" -> "Float32"
      [] d = "TILEDB_FLOAT64" -> "Float64"
      [] d = "TILEDB_STRING_ASCII" -> "Uint8"
      [] d = "TILEDB_STRING_UTF8" -> "Uint8"
      [] d = "TILEDB_STRING_UTF16" -> "Uint16"
      [] d = "TILEDB_STRING_UTF32" -> "Uint32"
      [] d = "TILEDB_STRING_UCS2" -> "Uint16"
      [] d = "TILEDB_STRING_UCS4" -> "Uint32"
      [] d = "TILEDB_ANY" -> "Interface"
      [] OTHER -> "Interface"

\* The kinds the switch of SetBuffer / SetBufferVar has an arm for.
BufferKinds == Kinds \ {"Interface"}

\* The widths with the uint16 arm taking the width of the arm after it.
SizeofKindNarrow(k) ==
    CASE k \in {"Int8", "Uint8"} -> 1
      [] k \in {"Int16"} -> 2
      [] k \in {"Uint16", "Int32", "Uint32", "Float32"} -> 4
      [] k \in {"Int", "Int64", "Uint", "Uint64", "Float64"} -> 8
      [] OTHER -> 0

\* unsafe.Sizeof of one element, per arm of that switch (64-bit build).
\* The byte sizes are uint64 products of a slice length and this width: no
\* slice is long enough to wrap them.
SizeofKind(k) ==
    CASE k \in {"Int8", "Uint8"} -> 1
      [] k \in {"Int16", "Uint16"} -> 2
      [] k \in {"Int32", "Uint32", "Float32"} -> 4
      [] k \in {"Int", "Int64", "Uint", "Uint64", "Float64"} -> 8
      [] OTHER -> 0

\* unsafe.Sizeof(uint64(0)): the width of one offsets element.
OffsetWidth == 8

\* Datatype.Size: the byte width the engine gives a datatype.
DatatypeSize(d) ==
    CASE d \in {"TILEDB_INT8", "TILEDB_UINT8", "TILEDB_CHAR", "TILEDB_ANY",
                "TILEDB_STRING_ASCII", "TILEDB_STRING_UTF8"} -> 1
      [] d \in {"TILEDB_INT16", "TILEDB_UINT16", "TILEDB_STRING_UTF16",
                "TILEDB_STRING_UCS2"} -> 2
      [] d \in {"TILEDB_INT32", "TILEDB_UINT32", "TILEDB_FLOAT32",
                "TILEDB_STRING_UTF32", "TILEDB_STRING_UCS4"} -> 4
      [] OTHER -> 8

\* ------------------------------------------------------------------ state
\* The names callers pass: a dimension, an attribute, the coordinate
\* sentinel and a name the schema does not know.
TILEDB_COORDS == "__coords"
DimNames == {"rows"}
AttrNames == {"a"}
FieldNames == DimNames \cup AttrNames \cup {TILEDB_COORDS, "zz"}

\* Size cells live on the Go heap: a cell is an address in 1..NumCells, 0 is
\* the nil pointer.  A cell nothing points to is reclaimed and reads as zero.
\* Each field has three addresses for its offsets size and three for its
\* data size: a call's new cell, the cell it replaces, and one to spare.
NumCells == 3 * 2 * Cardinality(FieldNames)
CellIds == 1..NumCells

\* The goroutines that call into one query (SpecConc).
Goroutines == {"g1", "g2"}

NoSlice == [kind |-> "none", len |-> 0]
NoRet == [op |-> "none", handle |-> "alloc", field |-> "-", err |-> "nil",
          optr |-> 0, dptr |-> 0, view |-> NoSlice, oview |-> NoSlice, elems |-> <<>>]
NoArgs == [buffer |-> NoSlice, offset |-> NoSlice]
NoLocal == [op |-> "none", field |-> "-", buffer |-> NoSlice, offset |-> NoSlice]

VARIABLES
    schema,                 \* the array schema the query's array answers with
    queryType,              \* TILEDB_READ or TILEDB_WRITE, fixed at creation
    tiledbQuery,            \* q.tiledbQuery: "alloc" or "nil"
    buffers,                \* q.buffers: the pin table, a bag (nothing reads its order)
    resultBufferElements,   \* q.resultBufferElements: name -> <<offsets cell, data cell>>
    cells,                  \* the uint64 size cells: cell id -> value
    engBuffers,             \* engine: name -> registered buffer
    engLayout,              \* engine: the query's layout
    engStatus,              \* engine: the query's status
    released,               \* engine: how often the query handle was released
    ret,                    \* the last call: its receiver, its field and what it returned
    args,                   \* the slices handed to the last bind call (recorded by SpecBind)
    engRanges,              \* engine: dimension index -> the ranges added, in order
    addedRanges,            \* dimension index -> the (start, end) pairs AddRange was handed
    bufferMutex,            \* q.bufferMutex: "free" or the goroutine holding it
    pc,                     \* goroutine -> where it is in its call (SpecConc only)
    local,                  \* goroutine -> the call it is in (SpecConc only)
    engArray,               \* engine: the array's cells (coordinates -> value), stored and not yet flushed
    engSubarray,            \* engine: the query's subarray, <<>> while none is set
    bufData,                \* the elements of the slice registered for a field
    engCursor,              \* engine: the result cells a read has delivered so far
    writes,                 \* the writes submitted to the array, as the caller made them
    consumed                \* the result cells the caller has taken from its buffers

queryVars == <<tiledbQuery, buffers, resultBufferElements, cells, engBuffers,
               engLayout, engStatus, released>>
concVars == <<bufferMutex, pc, local>>
rangeVars == <<engRanges, addedRanges>>
dataVars == <<engArray, engSubarray, bufData, engCursor, writes, consumed>>
vars == <<schema, queryType, queryVars, ret, args, concVars, rangeVars, dataVars>>

\* ----------------------------------------------------------------- schema
\* domain.HasDimension.
HasDimension(name) == name \in DimNames

\* The datatypes of the example array when the query is created on it
\* (query.go 1820-1845).
OpenTypes == [dimType |-> "TILEDB_INT32", attrType |-> "TILEDB_UINT32"]

\* SetBuffer's lookup, had the query kept the datatypes it saw when it was
\* created instead of asking q.array.Schema() in every call.
FixedFieldTypeCached(name) ==
    IF name = TILEDB_COORDS THEN [err |-> "nil", type |-> OpenTypes.dimType]
    ELSE IF HasDimension(name) THEN [err |-> "nil", type |-> OpenTypes.dimType]
    ELSE IF name \in AttrNames THEN [err |-> "nil", type |-> OpenTypes.attrType]
    ELSE [err |-> "NotFound", type |-> "-"]

\* The datatype SetBuffer validates against (query.go 237-279): the domain's
\* type for the sentinel, else the dimension's, else the attribute's.
FixedFieldType(name) ==
    IF name = TILEDB_COORDS THEN [err |-> "nil", type |-> schema.dimType]
    ELSE IF HasDimension(name) THEN [err |-> "nil", type |-> schema.dimType]
    ELSE IF name \in AttrNames THEN [err |-> "nil", type |-> schema.attrType]
    ELSE [err |-> "NotFound", type |-> "-"]

\* SetBufferVar's lookup, had it the sentinel arm SetBuffer's has.
VarFieldTypeWithSentinel(name) ==
    IF name = TILEDB_COORDS THEN [err |-> "nil", type |-> schema.dimType]
    ELSE IF HasDimension(name) THEN [err |-> "nil", type |-> schema.dimType]
    ELSE IF name \in AttrNames THEN [err |-> "nil", type |-> schema.attrType]
    ELSE [err |-> "NotFound", type |-> "-"]

\* The datatype SetBufferVar validates against (query.go 1024-1052): there
\* is no sentinel arm, the sentinel is looked up as an attribute.
VarFieldType(name) ==
    IF HasDimension(name) THEN [err |-> "nil", type |-> schema.dimType]
    ELSE IF name \in AttrNames THEN [err |-> "nil", type |-> schema.attrType]
    ELSE [err |-> "NotFound", type |-> "-"]

\* Whether the engine holds the field to be variable-sized (its cellValNum).
IsVarSized(name) ==
    CASE name \in DimNames -> schema.dimVar
      [] name \in AttrNames -> schema.attrVar
      [] OTHER -> FALSE

\* ------------------------------------------------------------------- heap
\* Addresses show only in whether two pointers are equal, so the heap is
\* kept in one canonical order: the live cells of a field take the lowest
\* of the field's addresses.
FieldOrder == <<"a", "rows", "__coords", "zz">>

\* The address before the first of the field's offsets (role 0) or data
\* (role 1) size cells.
SlotBase(name, role) ==
    LET ix == CHOOSE i \in 1..Len(FieldOrder) : FieldOrder[i] = name
    IN 3 * (2 * (ix - 1) + role)

\* The cells something still points to: the binding table, the engine, or
\* the caller through the pointers the last call returned.
Live(tbl, eng, r) ==
    ({tbl[f][1] : f \in DOMAIN tbl} \cup {tbl[f][2] : f \in DOMAIN tbl} \cup
     {eng[f].ocell : f \in DOMAIN eng} \cup {eng[f].dcell : f \in DOMAIN eng} \cup
     {r.optr, r.dptr}) \ {0}

\* var bufferSize uint64: a fresh cell, at an address nothing points to.
NewCell(name, role) ==
    LET base == SlotBase(name, role)
        live == Live(resultBufferElements, engBuffers, ret)
    IN base + Cardinality({x \in (base + 1)..(base + 3) : x \in live}) + 1

\* Where the cell at address x is kept once only the cells of live are left.
Canonical(x, live) ==
    IF x = 0 THEN 0
    ELSE LET base == 3 * ((x - 1) \div 3)
         IN base + Cardinality({y \in (base + 1)..x : y \in live})

\* A map holding the one entry and nothing of what it held before.
PutAlone(m, k, v) == [x \in {k} |-> v]

\* A finite map with one entry put or replaced.
Put(m, k, v) == [x \in DOMAIN m \cup {k} |-> IF x = k THEN v ELSE m[x]]

EmptyMap == [x \in {} |-> 0]

\* The record of a call: the receiver's handle at entry, the field named.
Call(op, field) == [NoRet EXCEPT !.op = op, !.handle = tiledbQuery, !.field = field]

\* The call returns: the query's tables, the engine's registrations and the
\* heap take the values given.
Return(pins, tbl, eng, c, r) ==
    LET live == Live(tbl, eng, r)
        to(x) == Canonical(x, live)
    IN
    /\ buffers' = pins
    /\ resultBufferElements' = [f \in DOMAIN tbl |-> <<to(tbl[f][1]), to(tbl[f][2])>>]
    /\ engBuffers' = [f \in DOMAIN eng |->
                         [eng[f] EXCEPT !.ocell = to(eng[f].ocell), !.dcell = to(eng[f].dcell)]]
    /\ ret' = [r EXCEPT !.optr = to(r.optr), !.dptr = to(r.dptr)]
    /\ cells' = [i \in CellIds |->
                    IF \E x \in live : to(x) = i
                    THEN c[CHOOSE x \in live : to(x) = i] ELSE 0]

\* The call returns an error having changed nothing but (perhaps) the pin table.
Fail(pins, call, err) ==
    Return(pins, resultBufferElements, engBuffers, cells, [call EXCEPT !.err = err])

\* The call returns no error and a result that is no size cell.
Succeed(pins, call) ==
    Return(pins, resultBufferElements, engBuffers, cells, call)

\* ----------------------------------------------------------------- engine
\* The names the engine's query knows buffers for.
EngineNames == DimNames \cup AttrNames \cup {TILEDB_COORDS}

\* tiledb_query_set_buffer / tiledb_query_set_buffer_var answer TILEDB_OK:
\* the handle is live, the name is one of the array's, the call's form
\* (fixed or variable) is the field's, and nothing else went wrong (fault).
EngineAccepts(name, isVar, fault) ==
    /\ tiledbQuery # "nil"
    /\ name \in EngineNames
    /\ IsVarSized(name) = isVar
    /\ ~fault

\* ------------------------------------------------------------------ binds
\* SetBuffer's checks without the one for an empty slice.
SetBufferCheckNoEmpty(attributeOrDimension, buffer) ==
    LET t == FixedFieldType(attributeOrDimension) IN
    IF t.err # "nil" THEN t.err
    ELSE IF ReflectKind(t.type) # buffer.kind THEN "TypeMismatch"
    ELSE "nil"

\* SetBufferVar's checks without the one for the element kind.
SetBufferVarCheckNoKind(attributeOrDimension, offset, buffer) ==
    LET t == VarFieldType(attributeOrDimension) IN
    IF t.err # "nil" THEN t.err
    ELSE IF buffer.len = 0 THEN "EmptyBuffer"
    ELSE IF offset.len * OffsetWidth = 0 THEN "EmptyBuffer"
    ELSE "nil"

\* The checks SetBuffer makes before it takes the lock (query.go 237-297),
\* in the order it makes them: the first that fails names the error.
SetBufferCheck(attributeOrDimension, buffer) ==
    LET t == FixedFieldType(attributeOrDimension) IN
    IF t.err # "nil" THEN t.err
    ELSE IF ReflectKind(t.type) # buffer.kind THEN "TypeMismatch"
    ELSE IF buffer.len = 0 THEN "EmptyBuffer"
    ELSE "nil"

\* The checks SetBufferVar makes before it takes the lock (query.go 1024-1073).
SetBufferVarCheck(attributeOrDimension, offset, buffer) ==
    LET t == VarFieldType(attributeOrDimension) IN
    IF t.err # "nil" THEN t.err
    ELSE IF ReflectKind(t.type) # buffer.kind THEN "TypeMismatch"
    ELSE IF buffer.len = 0 THEN "EmptyBuffer"
    ELSE IF offset.len * OffsetWidth = 0 THEN "EmptyBuffer"
    ELSE "nil"

\* Query.SetBuffer (query.go 211-425).
SetBuffer(attributeOrDimension, buffer, fault) ==
    LET call == Call("SetBuffer", attributeOrDimension)
        chk == SetBufferCheck(attributeOrDimension, buffer)
        bufferSize == buffer.len * SizeofKind(buffer.kind)
        pinned == buffers (+) SetToBag({buffer})
        dcell == NewCell(attributeOrDimension, 1)
    IN
    /\ UNCHANGED <<schema, queryType, tiledbQuery, engLayout, engStatus, released>>
    /\ IF chk # "nil" THEN Fail(buffers, call, chk)
       ELSE IF buffer.kind \notin BufferKinds
       THEN Fail(buffers, call, "UnsupportedType")
       ELSE /\ BagCardinality(buffers) < MaxPins
            /\ IF ~EngineAccepts(attributeOrDimension, FALSE, fault)
               THEN Fail(pinned, call, "EngineFailure")
               ELSE Return(pinned,
                           Put(resultBufferElements, attributeOrDimension, <<0, dcell>>),
                           Put(engBuffers, attributeOrDimension,
                               [data |-> buffer, offs |-> NoSlice, ocell |-> 0, dcell |-> dcell]),
                           [cells EXCEPT ![dcell] = bufferSize],
                           [call EXCEPT !.dptr = dcell])

\* Query.SetBufferVar (query.go 999-1220).
SetBufferVar(attributeOrDimension, offset, buffer, fault) ==
    LET call == Call("SetBufferVar", attributeOrDimension)
        chk == SetBufferVarCheck(attributeOrDimension, offset, buffer)
        bufferSize == buffer.len * SizeofKind(buffer.kind)
        offsetSize == offset.len * OffsetWidth
        pinnedOffset == buffers (+) SetToBag({offset})
        pinned == pinnedOffset (+) SetToBag({buffer})
        ocell == NewCell(attributeOrDimension, 0)
        dcell == NewCell(attributeOrDimension, 1)
    IN
    /\ UNCHANGED <<schema, queryType, tiledbQuery, engLayout, engStatus, released>>
    /\ IF chk # "nil" THEN Fail(buffers, call, chk)
       ELSE IF buffer.kind \notin BufferKinds
       THEN /\ BagCardinality(buffers) < MaxPins
            /\ Fail(pinnedOffset, call, "UnsupportedType")
       ELSE /\ BagCardinality(buffers) + 1 < MaxPins
            /\ IF ~EngineAccepts(attributeOrDimension, TRUE, fault)
               THEN Fail(pinned, call, "EngineFailure")
               ELSE Return(pinned,
                           Put(resultBufferElements, attributeOrDimension, <<ocell, dcell>>),
                           Put(engBuffers, attributeOrDimension,
                               [data |-> buffer, offs |-> offset, ocell |-> ocell, dcell |-> dcell]),
                           [cells EXCEPT ![ocell] = offsetSize, ![dcell] = bufferSize],
                           [call EXCEPT !.optr = ocell, !.dptr = dcell])

\* Query.SetBufferUnsafe (query.go 188-207): the caller's memory (buffer) and
\* its size in bytes go straight to the engine; no check, no lock, no pin.
SetBufferUnsafe(attribute, buffer, bufferSize, fault) ==
    LET call == Call("SetBufferUnsafe", attribute)
        dcell == NewCell(attribute, 1)
    IN
    /\ UNCHANGED <<schema, queryType, tiledbQuery, engLayout, engStatus, released>>
    /\ IF ~EngineAccepts(attribute, FALSE, fault)
       THEN Fail(buffers, call, "EngineFailure")
       ELSE Return(buffers,
                   Put(resultBufferElements, attribute, <<0, dcell>>),
                   Put(engBuffers, attribute,
                       [data |-> buffer, offs |-> NoSlice, ocell |-> 0, dcell |-> dcell]),
                   [cells EXCEPT ![dcell] = bufferSize],
                   [call EXCEPT !.dptr = dcell])

\* Query.SetBufferVarUnsafe (query.go 975-996).
SetBufferVarUnsafe(attribute, offset, offsetSize, buffer, bufferSize, fault) ==
    LET call == Call("SetBufferVarUnsafe", attribute)
        ocell == NewCell(attribute, 0)
        dcell == NewCell(attribute, 1)
    IN
    /\ UNCHANGED <<schema, queryType, tiledbQuery, engLayout, engStatus, released>>
    /\ IF ~EngineAccepts(attribute, TRUE, fault)
       THEN Fail(buffers, call, "EngineFailure")
       ELSE Return(buffers,
                   Put(resultBufferElements, attribute, <<ocell, dcell>>),
                   Put(engBuffers, attribute,
                       [data |-> buffer, offs |-> offset, ocell |-> ocell, dcell |-> dcell]),
                   [cells EXCEPT ![ocell] = offsetSize, ![dcell] = bufferSize],
                   [call EXCEPT !.optr = ocell, !.dptr = dcell])

\* ------------------------------------------------------ teardown, execution
Layouts == {"TILEDB_ROW_MAJOR", "TILEDB_COL_MAJOR", "TILEDB_GLOBAL_ORDER", "TILEDB_UNORDERED"}

\* Free handing the handle to tiledb_query_free whatever it is.
FreeReleasesAlways(handle) == TRUE

\* Whether Free hands the handle to tiledb_query_free (query.go 89).
FreeReleases(handle) == handle # "nil"

\* Query.Free (query.go 84-92).  tiledb_query_free releases the engine's
\* query and sets the handle it is given to nil.
Free ==
    LET call == Call("Free", "-") IN
    /\ released' = IF FreeReleases(tiledbQuery) THEN released + 1 ELSE released
    /\ tiledbQuery' = "nil"
    /\ engStatus' = "NONE"
    /\ Return(EmptyBag, EmptyMap, EmptyMap, cells, call)
    /\ UNCHANGED <<schema, queryType, engLayout>>

\* Query.SetLayout (query.go 1655-1661).
SetLayout(layout) ==
    LET call == Call("SetLayout", "-") IN
    /\ IF tiledbQuery = "nil"
       THEN /\ Fail(buffers, call, "EngineFailure")
            /\ UNCHANGED engLayout
       ELSE /\ engLayout' = layout
            /\ Succeed(buffers, call)
    /\ UNCHANGED <<schema, queryType, tiledbQuery, engStatus, released>>

\* Query.Finalize (query.go 1666-1675): on the engine's TILEDB_OK the pin
\* table is dropped, whatever the layout or the query type.
Finalize(fault) ==
    LET call == Call("Finalize", "-") IN
    /\ IF tiledbQuery = "nil" \/ fault
       THEN Fail(buffers, call, "EngineFailure")
       ELSE Succeed(EmptyBag, call)
    /\ UNCHANGED <<schema, queryType, tiledbQuery, engLayout, engStatus, released>>

Min(a, b) == IF a < b THEN a ELSE b

\* The byte count the engine reports for a registered slice when n cells
\* are there to deliver: what fits, in whole elements.
Delivered(slice, n) == Min(n, slice.len) * SizeofKind(slice.kind)

\* The heap after the engine wrote its result sizes for a read of n cells.
WrittenSizes(n) ==
    [i \in CellIds |->
        IF \E f \in DOMAIN engBuffers : engBuffers[f].dcell = i
        THEN LET f == CHOOSE f \in DOMAIN engBuffers : engBuffers[f].dcell = i
             IN Delivered(engBuffers[f].data, n)
        ELSE IF \E f \in DOMAIN engBuffers : engBuffers[f].ocell = i
        THEN LET f == CHOOSE f \in DOMAIN engBuffers : engBuffers[f].ocell = i
             IN Delivered(engBuffers[f].offs, n)
        ELSE cells[i]]

\* Query.Submit (query.go 1696-1703), the engine running to its end before
\* the call returns.  A read of n cells fills every registered buffer with
\* as many as fit and writes the byte counts to the size cells; it is
\* Incomplete when some buffer was too small.  A write leaves the sizes.
Submit(n, fault) ==
    LET call == Call("Submit", "-") IN
    /\ IF tiledbQuery = "nil" \/ DOMAIN engBuffers = {}
       THEN /\ Fail(buffers, call, "EngineFailure")
            /\ UNCHANGED engStatus
       ELSE IF fault
       THEN /\ Fail(buffers, call, "EngineFailure")
            /\ engStatus' = "TILEDB_FAILED"
       ELSE IF queryType = "TILEDB_WRITE"
       THEN /\ Succeed(buffers, call)
            /\ engStatus' = "TILEDB_COMPLETED"
       ELSE /\ Return(buffers, resultBufferElements, engBuffers, WrittenSizes(n), call)
            /\ engStatus' = IF \E f \in DOMAIN engBuffers : engBuffers[f].data.len < n
                            THEN "TILEDB_INCOMPLETE" ELSE "TILEDB_COMPLETED"
    /\ UNCHANGED <<schema, queryType, tiledbQuery, engLayout, released>>

\* Query.SubmitAsync (query.go 1722-1728): tiledb_query_submit_async with no
\* callback.  The engine takes the query and the call returns; from then on
\* the query is TILEDB_INPROGRESS "while the query is running" (the polling
\* loop of query.go 1712-1720).  A query the engine does not take keeps its
\* status.
SubmitAsync(fault) ==
    LET call == Call("SubmitAsync", "-") IN
    /\ IF tiledbQuery = "nil" \/ DOMAIN engBuffers = {} \/ fault
       THEN /\ Fail(buffers, call, "EngineFailure")
            /\ UNCHANGED engStatus
       ELSE /\ Succeed(buffers, call)
            /\ engStatus' = "TILEDB_INPROGRESS"
    /\ UNCHANGED <<schema, queryType, tiledbQuery, engLayout, released>>

\* The engine's worker comes to the end of a query submitted with
\* SubmitAsync: as at the end of Submit, a read of n cells fills the
\* registered buffers and writes the byte counts.  No call returns.
EngineFinishes(n, fault) ==
    /\ engStatus = "TILEDB_INPROGRESS"
    /\ IF fault
       THEN /\ Succeed(buffers, ret)
            /\ engStatus' = "TILEDB_FAILED"
       ELSE IF queryType = "TILEDB_WRITE"
       THEN /\ Succeed(buffers, ret)
            /\ engStatus' = "TILEDB_COMPLETED"
       ELSE /\ Return(buffers, resultBufferElements, engBuffers, WrittenSizes(n), ret)
            /\ engStatus' = IF \E f \in DOMAIN engBuffers : engBuffers[f].data.len < n
                            THEN "TILEDB_INCOMPLETE" ELSE "TILEDB_COMPLETED"
    /\ UNCHANGED <<schema, queryType, tiledbQuery, engLayout, released>>

\* Status answering what it answered while the query was running.
StatusResultStale(handle, status) ==
    IF handle = "nil" THEN [err |-> "EngineFailure", status |-> -1]
    ELSE [err |-> "nil", status |-> "TILEDB_INPROGRESS"]

\* What Status returns (query.go 1733-1737): -1 and an error when
\* tiledb_query_get_status fails, else the status the engine has now.
StatusResult(handle, status) ==
    IF handle = "nil" THEN [err |-> "EngineFailure", status |-> -1]
    ELSE [err |-> "nil", status |-> status]

\* Query.Status (query.go 1731-1738).
Status ==
    LET call == Call("Status", "-")
        res == StatusResult(tiledbQuery, engStatus)
    IN
    /\ Return(buffers, resultBufferElements, engBuffers, cells,
              [call EXCEPT !.err = res.err, !.elems = <<res.status>>])
    /\ UNCHANGED <<schema, queryType, tiledbQuery, engLayout, engStatus, released>>

\* ------------------------------------------------------------ result views
\* The counts with the offsets count taken from the data size.
ElementsOffsetsFromData(name, v) ==
    <<cells[v[2]] \div OffsetWidth,
      cells[v[2]] \div DatatypeSize(FixedFieldType(name).type)>>

\* The counts with the coordinates divided by the attribute's width.
ElementsByAttributeWidth(name, v) ==
    <<IF v[1] # 0 THEN cells[v[1]] \div OffsetWidth ELSE 0,
      cells[v[2]] \div DatatypeSize(schema.attrType)>>

\* The element counts ResultBufferElements computes for one entry of the
\* binding table (query.go 1243-1297).
Elements(name, v) ==
    IF name = TILEDB_COORDS
    THEN <<0, cells[v[2]] \div DatatypeSize(schema.dimType)>>
    ELSE <<IF v[1] # 0 THEN cells[v[1]] \div OffsetWidth ELSE 0,
           cells[v[2]] \div DatatypeSize(VarFieldType(name).type)>>

\* Query.ResultBufferElements (query.go 1228-1301).
ResultBufferElements ==
    LET call == Call("ResultBufferElements", "-")
        tbl == resultBufferElements
    IN
    /\ IF \E f \in DOMAIN tbl : f # TILEDB_COORDS /\ VarFieldType(f).err # "nil"
       THEN Fail(buffers, call, "NotFound")
       ELSE Succeed(buffers, [call EXCEPT !.elems = [f \in DOMAIN tbl |-> Elements(f, tbl[f])]])
    /\ UNCHANGED <<schema, queryType, tiledbQuery, engLayout, engStatus, released>>

\* The datatypes the switch of Buffer and BufferVar has an arm for
\* (query.go 871-964, 1363-1492).
ViewDatatypes == Datatypes

\* C.sizeof_* the arm divides the engine's byte count by.
ViewWidth(d) ==
    CASE d \in {"TILEDB_INT8", "TILEDB_UINT8", "TILEDB_CHAR",
                "TILEDB_STRING_ASCII", "TILEDB_STRING_UTF8"} -> 1
      [] d \in {"TILEDB_INT16", "TILEDB_UINT16", "TILEDB_STRING_UTF16",
                "TILEDB_STRING_UCS2"} -> 2
      [] d \in {"TILEDB_INT32", "TILEDB_UINT32", "TILEDB_FLOAT32",
                "TILEDB_STRING_UTF32", "TILEDB_STRING_UCS4", "TILEDB_ANY"} -> 4
      [] OTHER -> 8

\* The element kind of the view the arm builds.
ViewKind(d) ==
    CASE d = "TILEDB_INT8" -> "Int8"
      [] d = "TILEDB_INT16" -> "Int16"
      [] d = "TILEDB_INT32" -> "Int32"
      [] d \in {"TILEDB_INT64", "TILEDB_DATETIME_YEAR"} -> "Int64"
      [] d \in {"TILEDB_UINT8", "TILEDB_CHAR", "TILEDB_STRING_ASCII",
                "TILEDB_STRING_UTF8"} -> "Uint8"
      [] d \in {"TILEDB_UINT16", "TILEDB_STRING_UTF16", "TILEDB_STRING_UCS2"} -> "Uint16"
      [] d \in {"TILEDB_UINT32", "TILEDB_STRING_UTF32", "TILEDB_STRING_UCS4"} -> "Uint32"
      [] d = "TILEDB_UINT64" -> "Uint64"
      [] d = "TILEDB_FLOAT32" -> "Float32"
      [] d = "TILEDB_FLOAT64" -> "Float64"
      [] OTHER -> "Int8"

\* tiledb_query_get_buffer / tiledb_query_get_buffer_var: the status and the
\* size pointers the engine hands back.  A field nothing was registered for
\* gets nil pointers with TILEDB_OK; an error leaves the pointers nil.
EngineGetBuffer(name, isVar) ==
    IF tiledbQuery = "nil" \/ name \notin EngineNames \/ IsVarSized(name) # isVar
    THEN [ok |-> FALSE, ocell |-> 0, dcell |-> 0]
    ELSE IF name \notin DOMAIN engBuffers
    THEN [ok |-> TRUE, ocell |-> 0, dcell |-> 0]
    ELSE [ok |-> TRUE, ocell |-> engBuffers[name].ocell, dcell |-> engBuffers[name].dcell]

\* Query.Buffer (query.go 816-970).  Each arm reads *cbufferSize before the
\* engine's status is looked at: a nil size pointer is a nil dereference.
Buffer(attributeOrDimension) ==
    LET call == Call("Buffer", attributeOrDimension)
        t == FixedFieldType(attributeOrDimension)
        got == EngineGetBuffer(attributeOrDimension, FALSE)
    IN
    /\ IF t.err # "nil" THEN Fail(buffers, call, t.err)
       ELSE IF t.type \notin ViewDatatypes THEN Fail(buffers, call, "UnsupportedType")
       ELSE IF got.dcell = 0 THEN Fail(buffers, call, "panic")
       ELSE IF ~got.ok THEN Fail(buffers, call, "EngineFailure")
       ELSE Succeed(buffers,
                [call EXCEPT !.view = [kind |-> ViewKind(t.type),
                                       len |-> cells[got.dcell] \div ViewWidth(t.type)]])
    /\ UNCHANGED <<schema, queryType, tiledbQuery, engLayout, engStatus, released>>

\* Query.BufferVar (query.go 1305-1498): as Buffer, and *coffsetsSize is
\* read the same way.
BufferVar(attributeOrDimension) ==
    LET call == Call("BufferVar", attributeOrDimension)
        t == FixedFieldType(attributeOrDimension)
        got == EngineGetBuffer(attributeOrDimension, TRUE)
    IN
    /\ IF t.err # "nil" THEN Fail(buffers, call, t.err)
       ELSE IF t.type \notin ViewDatatypes THEN Fail(buffers, call, "UnsupportedType")
       ELSE IF got.dcell = 0 \/ got.ocell = 0 THEN Fail(buffers, call, "panic")
       ELSE IF ~got.ok THEN Fail(buffers, call, "EngineFailure")
       ELSE Succeed(buffers,
                [call EXCEPT !.view = [kind |-> ViewKind(t.type),
                                       len |-> cells[got.dcell] \div ViewWidth(t.type)],
                             !.oview = [kind |-> "Uint64",
                                        len |-> cells[got.ocell] \div OffsetWidth]])
    /\ UNCHANGED <<schema, queryType, tiledbQuery, engLayout, engStatus, released>>

\* The count with every size divided by the width of an offset.
SizeElementsByOffsetWidth(cell, width) ==
    IF cell = 0 THEN 0 ELSE cells[cell] \div OffsetWidth

\* The element count BufferSize and BufferSizeVar make of a size pointer the
\* engine handed back (query.go 1566-1577, 1644-1649): zero for nil.
SizeElements(cell, width) ==
    IF cell = 0 THEN 0 ELSE cells[cell] \div width

\* Query.BufferSize (query.go 1583-1652).
BufferSize(attributeNameOrDimension) ==
    LET call == Call("BufferSize", attributeNameOrDimension)
        t == FixedFieldType(attributeNameOrDimension)
        got == EngineGetBuffer(attributeNameOrDimension, FALSE)
    IN
    /\ IF t.err # "nil" THEN Fail(buffers, call, t.err)
       ELSE IF ~got.ok THEN Fail(buffers, call, "EngineFailure")
       ELSE Succeed(buffers,
                [call EXCEPT !.elems = <<0, SizeElements(got.dcell, DatatypeSize(t.type))>>])
    /\ UNCHANGED <<schema, queryType, tiledbQuery, engLayout, engStatus, released>>

\* Query.BufferSizeVar (query.go 1501-1580).
BufferSizeVar(attributeOrDimension) ==
    LET call == Call("BufferSizeVar", attributeOrDimension)
        t == FixedFieldType(attributeOrDimension)
        got == EngineGetBuffer(attributeOrDimension, TRUE)
    IN
    /\ IF t.err # "nil" THEN Fail(buffers, call, t.err)
       ELSE IF ~got.ok THEN Fail(buffers, call, "EngineFailure")
       ELSE Succeed(buffers,
                [call EXCEPT !.elems = <<SizeElements(got.ocell, DatatypeSize("TILEDB_UINT64")),
                                         SizeElements(got.dcell, DatatypeSize(t.type))>>])
    /\ UNCHANGED <<schema, queryType, tiledbQuery, engLayout, engStatus, released>>

\* ----------------------------------------------------------------- ranges
\* What a caller hands to a parameter of type interface{}: nil, a scalar of
\* some kind, or a slice of some element kind. A scalar's val is its value;
\* a slice's val is its length (its bytes stand for themselves).
RangeVals == {1, 200, 300}

Fits(kind, v) ==
    CASE kind = "Int8" -> v < 128
      [] kind = "Uint8" -> v < 256
      [] OTHER -> TRUE

NilValue == [form |-> "nil", kind |-> "Invalid", val |-> 0]
Scalar(kind, v) == [form |-> "scalar", kind |-> kind, val |-> v]
SliceOf(kind, n) == [form |-> "slice", kind |-> kind, val |-> n]

\* reflect.ValueOf(v).Kind().
ValueKind(v) ==
    IF v.form = "nil" THEN "Invalid"
    ELSE IF v.form = "slice" THEN "Slice"
    ELSE v.kind

\* How the bytes of a scalar are laid out: two's complement or IEEE 754.
ReprOf(kind) ==
    CASE kind = "Float32" -> "f32"
      [] kind = "Float64" -> "f64"
      [] OTHER -> "int"

\* The w bytes the engine copies from the address of a scalar (little
\* endian). A scalar as wide as w is copied whole. From a wider one the
\* engine takes the low bytes. From a narrower one it reads past the scalar:
\* what lies there (high) is whatever the Go heap holds.
Encode(v, w, junk) ==
    LET sw == SizeofKind(v.kind) IN
    IF sw = w THEN [repr |-> ReprOf(v.kind), val |-> v.val, high |-> 0]
    ELSE IF sw > w
    THEN IF ReprOf(v.kind) = "int"
         THEN [repr |-> "int", val |-> IF w = 1 THEN v.val % 256 ELSE v.val, high |-> 0]
         ELSE [repr |-> "part", val |-> 0, high |-> 0]
    ELSE [repr |-> ReprOf(v.kind), val |-> v.val, high |-> junk]

\* The scalar type GetRange reads a fixed dimension's range as
\* (query.go 685-721).
RangeKind(datatype) ==
    CASE datatype = "TILEDB_INT8" -> "Int8"
      [] datatype = "TILEDB_INT16" -> "Int16"
      [] datatype = "TILEDB_INT32" -> "Int32"
      [] datatype \in {"TILEDB_INT64", "TILEDB_DATETIME_YEAR"} -> "Int64"
      [] datatype = "TILEDB_UINT8" -> "Uint8"
      [] datatype = "TILEDB_UINT16" -> "Uint16"
      [] datatype = "TILEDB_UINT32" -> "Uint32"
      [] datatype = "TILEDB_UINT64" -> "Uint64"
      [] datatype = "TILEDB_FLOAT32" -> "Float32"
      [] datatype = "TILEDB_FLOAT64" -> "Float64"
      [] datatype = "TILEDB_STRING_ASCII" -> "Uint8"
      [] OTHER -> "Interface"

\* The bytes one bound of a fixed dimension's range takes in the engine: as
\* many as GetRange reads through its pointer.
RangeWidth(datatype) == SizeofKind(RangeKind(datatype))

\* Decode with every arm reading its bytes as signed.
DecodeAllSigned(kind, stored) ==
    IF stored.repr # ReprOf(kind) \/ stored.high # 0 THEN -1
    ELSE IF SizeofKind(kind) = 1 /\ stored.val >= 128 THEN stored.val - 256
    ELSE stored.val

\* The value of *(*T)(p) for the bytes the engine holds: theirs if they were
\* written as a T, and some other number (-1) if not.
Decode(kind, stored) ==
    IF stored.repr # ReprOf(kind) \/ stored.high # 0 THEN -1
    ELSE IF kind = "Int8" /\ stored.val >= 128 THEN stored.val - 256
    ELSE stored.val

\* The dimension at an index (Domain.DimensionFromIndex), counted from 0.
NDim == Len(schema.dims)
HasDimIdx(dimIdx) == dimIdx \in 0..(NDim - 1)
Dim(dimIdx) == schema.dims[dimIdx + 1]

\* tiledb_query_add_range / tiledb_query_add_range_var answer TILEDB_OK: the
\* handle is live, the index is one of the domain's, the call's form (fixed
\* or variable) is the dimension's, and nothing else went wrong (fault: the
\* range lies outside the domain, its bounds are out of order, ...).
EngineAddsRange(dimIdx, isVar, fault) ==
    /\ tiledbQuery # "nil"
    /\ HasDimIdx(dimIdx)
    /\ Dim(dimIdx).var = isVar
    /\ ~fault

rangeFrame == <<schema, queryType, queryVars>>

RangeCall(op, dimIdx, rangeNum, start, end) ==
    [op |-> op, dimIdx |-> dimIdx, rangeNum |-> rangeNum, start |-> start, end |-> end]

\* The outcome of a range operation that leaves the engine as it was.
RangeReturn(op, err, result) ==
    /\ ret' = [Call(op, "-") EXCEPT !.err = err, !.elems = result]
    /\ UNCHANGED rangeVars

\* What AddRange does before it calls the engine (query.go 432-511): the
\* kinds of start and end are compared with each other; reflect.TypeOf(start)
\* is nil for a nil start, and Kind() on it dereferences nil; the switch has
\* an arm for every numeric kind.
AddRangeCheck(dimIdx, start, end) ==
    IF ValueKind(start) # ValueKind(end) THEN "TypeMismatch"
    ELSE IF start.form = "nil" THEN "panic"
    ELSE IF ValueKind(start) \notin BufferKinds THEN "UnsupportedType"
    ELSE "nil"

\* Query.AddRange (query.go 431-523).
AddRange(dimIdx, start, end, junk, fault) ==
    LET chk == AddRangeCheck(dimIdx, start, end) IN
    /\ args' = RangeCall("AddRange", dimIdx, 0, start, end)
    /\ UNCHANGED rangeFrame
    /\ IF chk # "nil" THEN RangeReturn("AddRange", chk, <<>>)
       ELSE IF ~EngineAddsRange(dimIdx, FALSE, fault)
       THEN RangeReturn("AddRange", "EngineFailure", <<>>)
       ELSE LET w == RangeWidth(Dim(dimIdx).type)
                stored == [start |-> Encode(start, w, junk), end |-> Encode(end, w, junk)]
            IN
            /\ ret' = Call("AddRange", "-")
            /\ engRanges' = [engRanges EXCEPT ![dimIdx + 1] = Append(@, stored)]
            /\ addedRanges' = [addedRanges EXCEPT
                                  ![dimIdx + 1] = Append(@, [start |-> start, end |-> end])]

\* What AddRangeVar does before it calls the engine (query.go 528-573): both
\* must be slices; every element kind of start but uint8 is refused; end is
\* asserted to be a []uint8 (the assertion has one result, it panics when it
\* fails); &tStart[0] and &tEnd[0] index the slices.
AddRangeVarCheck(start, end) ==
    IF ValueKind(start) # "Slice" THEN "TypeMismatch"
    ELSE IF ValueKind(end) # "Slice" THEN "TypeMismatch"
    ELSE IF start.kind # "Uint8" THEN "UnsupportedType"
    ELSE IF end.kind # "Uint8" THEN "panic"
    ELSE IF start.val = 0 \/ end.val = 0 THEN "panic"
    ELSE "nil"

\* Query.AddRangeVar (query.go 527-604).
AddRangeVar(dimIdx, start, end, fault) ==
    LET chk == AddRangeVarCheck(start, end) IN
    /\ args' = RangeCall("AddRangeVar", dimIdx, 0, start, end)
    /\ UNCHANGED rangeFrame
    /\ IF chk # "nil" THEN RangeReturn("AddRangeVar", chk, <<>>)
       ELSE IF ~EngineAddsRange(dimIdx, TRUE, fault)
       THEN RangeReturn("AddRangeVar", "EngineFailure", <<>>)
       ELSE LET stored == [start |-> [repr |-> "bytes", val |-> start.val, high |-> 0],
                           end |-> [repr |-> "bytes", val |-> end.val, high |-> 0]]
            IN
            /\ ret' = Call("AddRangeVar", "-")
            /\ engRanges' = [engRanges EXCEPT ![dimIdx + 1] = Append(@, stored)]
            /\ addedRanges' = [addedRanges EXCEPT
                                  ![dimIdx + 1] = Append(@, [start |-> start, end |-> end])]

\* tiledb_query_get_range, tiledb_query_get_range_var_size and
\* tiledb_query_get_range_var answer TILEDB_OK.
EngineHasRange(dimIdx, rangeNum, fault) ==
    /\ tiledbQuery # "nil"
    /\ HasDimIdx(dimIdx)
    /\ rangeNum < Len(engRanges[dimIdx + 1])
    /\ ~fault

\* The result of GetRange (query.go 610-725): err, start, end.
RangeFailed(err) == [err |-> err, start |-> NilValue, end |-> NilValue]

GetRangeResult(dimIdx, rangeNum, fault) ==
    IF ~HasDimIdx(dimIdx) THEN RangeFailed("NotFound")
    ELSE IF ~EngineHasRange(dimIdx, rangeNum, fault) THEN RangeFailed("EngineFailure")
    ELSE LET r == engRanges[dimIdx + 1][rangeNum + 1]
             kind == RangeKind(Dim(dimIdx).type)
         IN
         IF Dim(dimIdx).var
         THEN IF r.start.val = 0 \/ r.end.val = 0 THEN RangeFailed("panic")
              ELSE [err |-> "nil", start |-> SliceOf("Uint8", r.start.val),
                    end |-> SliceOf("Uint8", r.end.val)]
         ELSE IF kind = "Interface" THEN RangeFailed("UnsupportedType")
         ELSE [err |-> "nil", start |-> Scalar(kind, Decode(kind, r.start)),
               end |-> Scalar(kind, Decode(kind, r.end))]

\* Query.GetRange.
GetRange(dimIdx, rangeNum, fault) ==
    LET r == GetRangeResult(dimIdx, rangeNum, fault) IN
    /\ args' = RangeCall("GetRange", dimIdx, rangeNum, NilValue, NilValue)
    /\ UNCHANGED rangeFrame
    /\ RangeReturn("GetRange", r.err, IF r.err = "nil" THEN <<r.start, r.end>> ELSE <<>>)

\* The result of GetRangeNum (query.go 800-813): err, num.
GetRangeNumResult(dimIdx, fault) ==
    IF tiledbQuery # "nil" /\ HasDimIdx(dimIdx) /\ ~fault
    THEN [err |-> "nil", num |-> Len(engRanges[dimIdx + 1])]
    ELSE [err |-> "EngineFailure", num |-> 0]

\* Query.GetRangeNum.
GetRangeNum(dimIdx, fault) ==
    LET r == GetRangeNumResult(dimIdx, fault) IN
    /\ args' = RangeCall("GetRangeNum", dimIdx, 0, NilValue, NilValue)
    /\ UNCHANGED rangeFrame
    /\ RangeReturn("GetRangeNum", r.err, IF r.err = "nil" THEN <<r.num>> ELSE <<>>)

\* The lookups GetRanges makes (query.go 763-791), dimension by dimension
\* and range by range; faultAt is the lookup the engine fails, if any.
RangeLookups(faultAt) ==
    [d \in 0..(NDim - 1) |->
        LET n == GetRangeNumResult(d, faultAt = <<d, -1>>) IN
        [num |-> n,
         ranges |-> [i \in 1..n.num |-> GetRangeResult(d, i - 1, faultAt = <<d, i - 1>>)]]]

LookupPositions(lookups) ==
    UNION {{<<d, i>> : i \in -1..(lookups[d].num.num - 1)} : d \in DOMAIN lookups}

LookupErr(lookups, p) ==
    IF p[2] = -1 THEN lookups[p[1]].num.err ELSE lookups[p[1]].ranges[p[2] + 1].err

FailedLookups(lookups) ==
    {p \in LookupPositions(lookups) : LookupErr(lookups, p) # "nil"}

\* The lookup the loops reach first among those that fail.
FirstFailed(lookups) ==
    CHOOSE p \in FailedLookups(lookups) :
        \A q \in FailedLookups(lookups) :
            p[1] < q[1] \/ (p[1] = q[1] /\ p[2] <= q[2])

\* The map with the dimensions that have no range left out.
RangeMapSkipsEmpty(lookups) ==
    [name \in {Dim(d).name : d \in {e \in DOMAIN lookups : lookups[e].num.num > 0}} |->
        LET d == CHOOSE e \in DOMAIN lookups : Dim(e).name = name IN
        [i \in 1..lookups[d].num.num |->
            <<lookups[d].ranges[i].start, lookups[d].ranges[i].end>>]]

\* rangeMap as the loops build it (query.go 761, 779-791): under each
\* dimension's name, the RangeLimits of its ranges in index order.
RangeMap(lookups) ==
    [name \in {Dim(d).name : d \in DOMAIN lookups} |->
        LET d == CHOOSE e \in DOMAIN lookups : Dim(e).name = name IN
        [i \in 1..lookups[d].num.num |->
            <<lookups[d].ranges[i].start, lookups[d].ranges[i].end>>]]

\* Query.GetRanges (query.go 738-796): any failed lookup returns (nil, err).
GetRanges(faultAt) ==
    LET lookups == RangeLookups(faultAt) IN
    /\ args' = RangeCall("GetRanges", faultAt[1], faultAt[2], NilValue, NilValue)
    /\ UNCHANGED rangeFrame
    /\ IF FailedLookups(lookups) = {}
       THEN RangeReturn("GetRanges", "nil", RangeMap(lookups))
       ELSE RangeReturn("GetRanges", LookupErr(lookups, FirstFailed(lookups)), <<>>)

\* tiledb_query_set_subarray answers TILEDB_OK.
EngineSetsSubarray(fault) == tiledbQuery # "nil" /\ ~fault

\* What SetSubArray does before it calls the engine (query.go 99-176):
\* reflect.TypeOf(subArray) is nil for a nil subArray, and Kind() on it
\* dereferences nil; the element kind must be the domain's; &tmpSubArray[0]
\* indexes the slice.
SetSubArrayCheck(subArray) ==
    IF subArray.form = "nil" THEN "panic"
    ELSE IF ValueKind(subArray) # "Slice" THEN "TypeMismatch"
    ELSE IF subArray.kind # ReflectKind(schema.dimType) THEN "TypeMismatch"
    ELSE IF subArray.kind \notin BufferKinds THEN "UnsupportedType"
    ELSE IF subArray.val = 0 THEN "panic"
    ELSE "nil"

\* Query.SetSubArray (query.go 97-183). The engine replaces the ranges of
\* every dimension by the one the subarray gives it: it reads two values of
\* the domain's type per dimension from the address it is handed, past the
\* slice's end if the slice is shorter (junk). The slice's elements are not
\* modelled; each reads as 1.
SetSubArray(subArray, junk, fault) ==
    LET chk == SetSubArrayCheck(subArray)
        w == RangeWidth(schema.dimType)
        high == IF subArray.val < 2 * NDim THEN junk ELSE 0
        bound == [Encode(Scalar(subArray.kind, 1), w, 0) EXCEPT !.high = high]
    IN
    /\ args' = RangeCall("SetSubArray", 0, 0, subArray, NilValue)
    /\ UNCHANGED rangeFrame
    /\ IF chk # "nil" THEN RangeReturn("SetSubArray", chk, <<>>)
       ELSE IF ~EngineSetsSubarray(fault)
       THEN RangeReturn("SetSubArray", "EngineFailure", <<>>)
       ELSE /\ ret' = Call("SetSubArray", "-")
            /\ engRanges' = [d \in DOMAIN engRanges |-> <<[start |-> bound, end |-> bound]>>]
            /\ UNCHANGED addedRanges

\* ---------------------------------------------------------- specifications
\* The slices callers pass: every kind, every length up to the bound.
Slices(kinds) == [kind : kinds, len : 0..MaxLen]
Offsets == [kind : {"Uint64"}, len : 0..MaxOff]

\* The schemas of the examples (query.go 1820-1845): int32 dimensions and a
\* uint32 attribute, which is fixed-size or variable-size.
ExampleDims ==
    <<[name |-> "rows", type |-> "TILEDB_INT32", var |-> FALSE],
      [name |-> "cols", type |-> "TILEDB_INT32", var |-> FALSE]>>

ExampleSchemas ==
    [dimType : {"TILEDB_INT32"}, dimVar : {FALSE},
     attrType : {"TILEDB_UINT32"}, attrVar : BOOLEAN, dims : {ExampleDims}]

\* Of these, the one both forms of bind have a field in: the coordinates
\* are fixed-size, the attribute is variable-size.
VarSchemas == {sc \in ExampleSchemas : sc.attrVar}

\* Schemas whose attribute has any datatype.
AllSchemas ==
    [dimType : {"TILEDB_INT32"}, dimVar : {FALSE},
     attrType : Datatypes, attrVar : BOOLEAN, dims : {ExampleDims}]

\* NewQuery (query.go 57-81): a fresh query on an open array.
InitWith(schemas, queryTypes) ==
    /\ schema \in schemas
    /\ queryType \in queryTypes
    /\ tiledbQuery = "alloc"
    /\ buffers = EmptyBag
    /\ resultBufferElements = EmptyMap
    /\ cells = [i \in CellIds |-> 0]
    /\ engBuffers = EmptyMap
    /\ engLayout = "TILEDB_ROW_MAJOR"
    /\ engStatus = "TILEDB_UNINITIALIZED"
    /\ released = 0
    /\ ret = NoRet
    /\ args = NoArgs
    /\ engRanges = [d \in 1..Len(schema.dims) |-> <<>>]
    /\ addedRanges = [d \in 1..Len(schema.dims) |-> <<>>]
    /\ bufferMutex = "free"
    /\ pc = [g \in Goroutines |-> "idle"]
    /\ local = [g \in Goroutines |-> NoLocal]
    /\ engArray = [stored |-> EmptyMap, pending |-> EmptyMap]
    /\ engSubarray = <<>>
    /\ bufData = <<>>
    /\ engCursor = 0
    /\ writes = <<>>
    /\ consumed = <<>>

\* The slices and names of the examples: non-empty slices of the two kinds
\* the schema declares, the attribute and the coordinates.
ExampleKinds == {"Int32", "Uint32"}
ExampleSlices == [kind : ExampleKinds, len : {1, MaxLen}]
ExampleOffsets == [kind : {"Uint64"}, len : {MaxOff}]
ExampleFields == AttrNames \cup {TILEDB_COORDS}
ExampleLayouts == {"TILEDB_ROW_MAJOR", "TILEDB_GLOBAL_ORDER"}

\* The life of a query: one caller, one call at a time.
Init == InitWith(VarSchemas, {"TILEDB_READ", "TILEDB_WRITE"})

seqFrame == <<args, concVars, rangeVars, dataVars>>

Next ==
    \/ \E f \in ExampleFields, b \in ExampleSlices, fault \in BOOLEAN :
          SetBuffer(f, b, fault) /\ UNCHANGED seqFrame
    \/ \E f \in ExampleFields, o \in ExampleOffsets, b \in ExampleSlices, fault \in BOOLEAN :
          SetBufferVar(f, o, b, fault) /\ UNCHANGED seqFrame
    \/ \E l \in ExampleLayouts : SetLayout(l) /\ UNCHANGED seqFrame
    \/ \E fault \in BOOLEAN : Finalize(fault) /\ UNCHANGED seqFrame
    \/ ResultBufferElements /\ UNCHANGED seqFrame
    \/ Free /\ UNCHANGED seqFrame

Spec == Init /\ [][Next]_vars

\* One bind call on a fresh query, on every schema, for every name and
\* with every kind and length of slice.
InitBind == InitWith(AllSchemas, {"TILEDB_READ"})

NextBind ==
    \/ \E f \in FieldNames, b \in Slices(Kinds), fault \in BOOLEAN :
          /\ ret.op = "none"
          /\ SetBuffer(f, b, fault)
          /\ args' = [buffer |-> b, offset |-> NoSlice]
          /\ UNCHANGED <<concVars, rangeVars, dataVars>>
    \/ \E f \in FieldNames, o \in Offsets, b \in Slices(Kinds), fault \in BOOLEAN :
          /\ ret.op = "none"
          /\ SetBufferVar(f, o, b, fault)
          /\ args' = [buffer |-> b, offset |-> o]
          /\ UNCHANGED <<concVars, rangeVars, dataVars>>

SpecBind == InitBind /\ [][NextBind]_vars

\* A read query: binds that pass the checks, submits, and the views of the
\* bound buffers.
InitView == InitWith(ExampleSchemas, {"TILEDB_READ"})

NextView ==
    \/ \E f \in ExampleFields, b \in ExampleSlices :
          SetBufferCheck(f, b) = "nil" /\ SetBuffer(f, b, FALSE) /\ UNCHANGED seqFrame
    \/ \E f \in ExampleFields, o \in ExampleOffsets, b \in ExampleSlices :
          /\ SetBufferVarCheck(f, o, b) = "nil"
          /\ SetBufferVar(f, o, b, FALSE)
          /\ UNCHANGED seqFrame
    \/ \E n \in 0..MaxLen, fault \in BOOLEAN : Submit(n, fault) /\ UNCHANGED seqFrame
    \/ \E f \in FieldNames : Buffer(f) /\ UNCHANGED seqFrame
    \/ \E f \in FieldNames : BufferVar(f) /\ UNCHANGED seqFrame

SpecView == InitView /\ [][NextView]_vars

\* A read query on an attribute of any datatype, bound through the unsafe
\* forms with memory of the datatype's width: submits, views and sizes.
InitRaw == InitWith(AllSchemas, {"TILEDB_READ"})

RawSlices == {b \in [kind : {"Uint8", "Uint16", "Uint32", "Uint64"}, len : {1, MaxLen}] :
                 SizeofKind(b.kind) = DatatypeSize(schema.attrType)}
RawOffsets == ExampleOffsets
RawFields == AttrNames \cup {"zz"}

NextRaw ==
    \/ \E f \in RawFields, b \in RawSlices :
          /\ SetBufferUnsafe(f, b, b.len * SizeofKind(b.kind), FALSE)
          /\ UNCHANGED seqFrame
    \/ \E f \in RawFields, o \in RawOffsets, b \in RawSlices :
          /\ SetBufferVarUnsafe(f, o, o.len * OffsetWidth, b, b.len * SizeofKind(b.kind), FALSE)
          /\ UNCHANGED seqFrame
    \/ \E n \in 0..MaxLen : Submit(n, FALSE) /\ UNCHANGED seqFrame
    \/ \E f \in RawFields : Buffer(f) /\ UNCHANGED seqFrame
    \/ \E f \in RawFields : BufferVar(f) /\ UNCHANGED seqFrame
    \/ \E f \in RawFields : BufferSize(f) /\ UNCHANGED seqFrame
    \/ \E f \in RawFields : BufferSizeVar(f) /\ UNCHANGED seqFrame

SpecRaw == InitRaw /\ [][NextRaw]_vars

\* A read query on every schema: typed binds of slices of the field's kind,
\* submits, and the element counts of the results.
InitResults == InitWith(AllSchemas, {"TILEDB_READ"})

NextResults ==
    \/ \E f \in ExampleFields, b \in [kind : BufferKinds, len : {1, MaxLen}] :
          /\ SetBufferCheck(f, b) = "nil"
          /\ SetBuffer(f, b, FALSE)
          /\ UNCHANGED seqFrame
    \/ \E f \in ExampleFields, o \in ExampleOffsets, b \in [kind : BufferKinds, len : {1, MaxLen}] :
          /\ SetBufferVarCheck(f, o, b) = "nil"
          /\ SetBufferVar(f, o, b, FALSE)
          /\ UNCHANGED seqFrame
    \/ \E n \in 0..MaxLen, fault \in BOOLEAN : Submit(n, fault) /\ UNCHANGED seqFrame
    \/ ResultBufferElements /\ UNCHANGED seqFrame

SpecResults == InitResults /\ [][NextResults]_vars


\* Typed binds, submits and Finalize on one query, in any order.
InitPins == InitWith(ExampleSchemas, {"TILEDB_WRITE"})

NextPins ==
    \/ \E f \in ExampleFields, b \in ExampleSlices :
          SetBuffer(f, b, FALSE) /\ UNCHANGED seqFrame
    \/ \E f \in ExampleFields, o \in ExampleOffsets, b \in ExampleSlices :
          SetBufferVar(f, o, b, FALSE) /\ UNCHANGED seqFrame
    \/ \E fault \in BOOLEAN : Finalize(fault) /\ UNCHANGED seqFrame
    \/ \E fault \in BOOLEAN : Submit(MaxLen, fault) /\ UNCHANGED seqFrame

SpecPins == InitPins /\ [][NextPins]_vars

\* Bind calls of the four forms on one query, in any order, for the
\* attribute, the coordinates and a name the schema does not know.
InitTable == InitWith(VarSchemas, {"TILEDB_READ"})

TableFields == AttrNames \cup {TILEDB_COORDS, "zz"}
TableSlices == [kind : ExampleKinds, len : {MaxLen}]

NextTable ==
    \/ \E f \in TableFields, b \in TableSlices, fault \in BOOLEAN :
          SetBuffer(f, b, fault) /\ UNCHANGED seqFrame
    \/ \E f \in TableFields, o \in ExampleOffsets, b \in TableSlices, fault \in BOOLEAN :
          SetBufferVar(f, o, b, fault) /\ UNCHANGED seqFrame
    \/ \E f \in TableFields, b \in TableSlices, fault \in BOOLEAN :
          /\ SetBufferUnsafe(f, b, b.len * SizeofKind(b.kind), fault)
          /\ UNCHANGED seqFrame
    \/ \E f \in TableFields, o \in ExampleOffsets, b \in TableSlices, fault \in BOOLEAN :
          /\ SetBufferVarUnsafe(f, o, o.len * OffsetWidth, b, b.len * SizeofKind(b.kind), fault)
          /\ UNCHANGED seqFrame

SpecTable == InitTable /\ [][NextTable]_vars


\* An array whose schema answers change while a query is open on it: the
\* attribute's datatype and whether it is variable-sized.  The query is
\* created while the array answers with the example's schema.
OpenSchema ==
    [dimType |-> OpenTypes.dimType, dimVar |-> FALSE,
     attrType |-> OpenTypes.attrType, attrVar |-> FALSE, dims |-> ExampleDims]

LiveSchemas ==
    [dimType : {OpenTypes.dimType}, dimVar : {FALSE},
     attrType : {"TILEDB_UINT32", "TILEDB_INT32"}, attrVar : BOOLEAN, dims : {ExampleDims}]

\* q.array.Schema() answers differently from now on.
SchemaChanges ==
    /\ schema' \in LiveSchemas \ {schema}
    /\ UNCHANGED <<queryType, queryVars, ret, args, concVars, rangeVars, dataVars>>

InitSchema == InitWith({OpenSchema}, {"TILEDB_READ"})

NextSchema ==
    \/ \E f \in ExampleFields, b \in TableSlices :
          /\ SetBuffer(f, b, FALSE)
          /\ args' = [buffer |-> b, offset |-> NoSlice]
          /\ UNCHANGED <<concVars, rangeVars, dataVars>>
    \/ \E f \in ExampleFields, o \in ExampleOffsets, b \in TableSlices :
          /\ SetBufferVar(f, o, b, FALSE)
          /\ args' = [buffer |-> b, offset |-> o]
          /\ UNCHANGED <<concVars, rangeVars, dataVars>>
    \/ SchemaChanges

SpecSchema == InitSchema /\ [][NextSchema]_vars

\* One caller and the engine's worker.  The caller binds the coordinates,
\* submits with SubmitAsync and polls Status until it no longer sees
\* TILEDB_INPROGRESS (the loop of query.go 1712-1720); the worker finishes
\* the query at some time of its own.  Both are scheduled fairly.
Caller == "g1"

AsyncBind(b) ==
    /\ pc[Caller] = "idle"
    /\ SetBuffer(TILEDB_COORDS, b, FALSE)
    /\ UNCHANGED seqFrame

AsyncSubmit(fault) ==
    /\ pc[Caller] = "idle"
    /\ SubmitAsync(fault)
    /\ pc' = [pc EXCEPT ![Caller] = IF ret'.err = "nil" THEN "polling" ELSE "idle"]
    /\ UNCHANGED <<args, bufferMutex, local, rangeVars, dataVars>>

AsyncPoll ==
    /\ Status
    /\ pc' = [pc EXCEPT ![Caller] =
                 IF ret'.err = "nil" /\ ret'.elems[1] = "TILEDB_INPROGRESS"
                 THEN pc[Caller] ELSE "idle"]
    /\ UNCHANGED <<args, bufferMutex, local, rangeVars, dataVars>>

AsyncFinish(fault) ==
    /\ EngineFinishes(MaxLen, fault)
    /\ UNCHANGED seqFrame

InitAsync == InitWith(VarSchemas, {"TILEDB_READ", "TILEDB_WRITE"})

NextAsync ==
    \/ \E b \in [kind : {"Int32"}, len : {1, MaxLen}] : AsyncBind(b)
    \/ \E fault \in BOOLEAN : AsyncSubmit(fault)
    \/ AsyncPoll
    \/ \E fault \in BOOLEAN : AsyncFinish(fault)

SpecAsync ==
    /\ InitAsync /\ [][NextAsync]_vars
    /\ WF_vars(AsyncPoll)
    /\ WF_vars(\E fault \in BOOLEAN : AsyncFinish(fault))

\* The arrays the range operations are tried on: dimension 0 ("rows") has
\* any of the datatypes the engine gives a dimension, fixed-size for the
\* numbers and variable-size for the strings; dimension 1 ("cols") is int32.
FixedDimTypes ==
    { "TILEDB_INT8", "TILEDB_INT16", "TILEDB_INT32", "TILEDB_INT64",
      "TILEDB_UINT8", "TILEDB_UINT16", "TILEDB_UINT32", "TILEDB_UINT64",
      "TILEDB_FLOAT32", "TILEDB_FLOAT64", "TILEDB_DATETIME_YEAR" }

RangeDims(type, var) ==
    <<[name |-> "rows", type |-> type, var |-> var],
      [name |-> "cols", type |-> "TILEDB_INT32", var |-> FALSE]>>

RangeSchema(type, var) ==
    [dimType |-> type, dimVar |-> var, attrType |-> "TILEDB_UINT32", attrVar |-> FALSE,
     dims |-> RangeDims(type, var)]

RangeSchemas ==
    {RangeSchema(t, FALSE) : t \in FixedDimTypes} \cup {RangeSchema("TILEDB_STRING_ASCII", TRUE)}

\* One configuration call on a fresh query, over every form of argument.
ScalarArgs(vals) ==
    {x \in [form : {"scalar"}, kind : Kinds, val : vals] : Fits(x.kind, x.val)}
SliceArgs(lens) == {SliceOf(k, n) : k \in {"Uint8", "Int32"}, n \in lens}
StartArgs == {NilValue} \cup ScalarArgs({1}) \cup SliceArgs({0, 1})
EndArgs(start) ==
    {NilValue, Scalar("Float64", 1), SliceOf("Uint8", 0), SliceOf("Uint8", 1),
     SliceOf("Int32", 1)}
        \cup {x \in ScalarArgs(RangeVals) : x.kind = start.kind /\ x.val # 300}
SubArrayArgs ==
    {NilValue} \cup ScalarArgs({1}) \cup {SliceOf(k, n) : k \in Kinds, n \in {0, 1, 2 * NDim}}

InitArgs == InitWith(RangeSchemas, {"TILEDB_READ"})

NextArgs ==
    \/ \E d \in {0, NDim}, start \in StartArgs, junk \in {0, 1}, fault \in BOOLEAN :
       \E end \in EndArgs(start) :
          /\ ret.op = "none"
          /\ AddRange(d, start, end, junk, fault)
          /\ UNCHANGED <<concVars, dataVars>>
    \/ \E d \in {0, NDim}, start \in StartArgs, fault \in BOOLEAN :
       \E end \in EndArgs(start) :
          /\ ret.op = "none"
          /\ AddRangeVar(d, start, end, fault)
          /\ UNCHANGED <<concVars, dataVars>>
    \/ \E subArray \in SubArrayArgs, junk \in {0, 1}, fault \in BOOLEAN :
          /\ ret.op = "none"
          /\ SetSubArray(subArray, junk, fault)
          /\ UNCHANGED <<concVars, dataVars>>

SpecArgs == InitArgs /\ [][NextArgs]_vars

\* Ranges added to and read back from a query, call after call.
RoomFor(d) == d \in 0..(NDim - 1) => Len(engRanges[d + 1]) < MaxRanges
RangePairs(d) ==
    LET k == RangeKind(Dim(d).type) IN
    IF k = "Interface" THEN {}
    ELSE IF d = 0
    THEN {<<Scalar(k, 1), Scalar(k, 1)>>,
          <<Scalar(k, 1), Scalar(k, IF Fits(k, 200) THEN 200 ELSE 100)>>}
    ELSE {<<Scalar(k, 200), Scalar(k, 300)>>}
RangeBytePairs == {<<SliceOf("Uint8", 1), SliceOf("Uint8", n)>> : n \in {1, MaxLen}}

InitRanges == InitWith(RangeSchemas, {"TILEDB_READ"})

NextRanges ==
    \/ \E d \in 0..(NDim - 1), junk \in {0}, fault \in BOOLEAN :
       \E r \in RangePairs(d) :
          /\ RoomFor(d)
          /\ AddRange(d, r[1], r[2], junk, fault)
          /\ UNCHANGED <<concVars, dataVars>>
    \/ \E d \in 0..(NDim - 1), r \in RangeBytePairs, fault \in BOOLEAN :
          /\ RoomFor(d)
          /\ AddRangeVar(d, r[1], r[2], fault)
          /\ UNCHANGED <<concVars, dataVars>>
    \/ \E d \in 0..(NDim - 1), i \in 0..MaxRanges :
          GetRange(d, i, FALSE) /\ UNCHANGED <<concVars, dataVars>>
    \/ \E d \in 0..NDim :
          GetRangeNum(d, FALSE) /\ UNCHANGED <<concVars, dataVars>>
    \/ \E faultAt \in {<<-1, -1>>, <<0, -1>>, <<1, 0>>} :
          GetRanges(faultAt) /\ UNCHANGED <<concVars, dataVars>>

SpecRanges == InitRanges /\ [][NextRanges]_vars

\* Two goroutines on one query.  A bind call makes its checks, takes
\* q.bufferMutex, pins and registers, and releases the lock as it returns
\* (query.go 300-301, 1076-1077); Submit takes no lock (query.go 1696-1703).
BindCall(g, op, f, o, b) ==
    LET chk == IF op = "SetBuffer" THEN SetBufferCheck(f, b)
               ELSE SetBufferVarCheck(f, o, b)
    IN
    /\ pc[g] = "idle"
    /\ IF chk # "nil"
       THEN /\ Fail(buffers, Call(op, f), chk)
            /\ UNCHANGED <<pc, local>>
       ELSE /\ pc' = [pc EXCEPT ![g] = "lock"]
            /\ local' = [local EXCEPT ![g] = [op |-> op, field |-> f, buffer |-> b, offset |-> o]]
            /\ UNCHANGED <<buffers, resultBufferElements, cells, engBuffers, ret>>
    /\ UNCHANGED <<schema, queryType, tiledbQuery, engLayout, engStatus, released,
                   args, bufferMutex, rangeVars, dataVars>>

\* q.bufferMutex.Lock().
BindLock(g) ==
    /\ pc[g] = "lock"
    /\ bufferMutex = "free"
    /\ bufferMutex' = g
    /\ pc' = [pc EXCEPT ![g] = "locked"]
    /\ UNCHANGED <<schema, queryType, queryVars, ret, args, local, rangeVars, dataVars>>

\* The rest of the call, and the deferred q.bufferMutex.Unlock().
BindReturn(g, fault) ==
    /\ pc[g] = "locked"
    /\ bufferMutex = g
    /\ IF local[g].op = "SetBuffer"
       THEN SetBuffer(local[g].field, local[g].buffer, fault)
       ELSE SetBufferVar(local[g].field, local[g].offset, local[g].buffer, fault)
    /\ bufferMutex' = "free"
    /\ pc' = [pc EXCEPT ![g] = "idle"]
    /\ local' = [local EXCEPT ![g] = NoLocal]
    /\ UNCHANGED <<args, rangeVars, dataVars>>

\* Submit hands the query to the engine, which starts to execute it.
SubmitCall(g) ==
    /\ pc[g] = "idle"
    /\ pc' = [pc EXCEPT ![g] = "submit"]
    /\ local' = [local EXCEPT ![g] = [NoLocal EXCEPT !.op = "Submit"]]
    /\ UNCHANGED <<schema, queryType, queryVars, ret, args, bufferMutex, rangeVars, dataVars>>

\* The engine is done and Submit returns.
SubmitReturn(g, n, fault) ==
    /\ pc[g] = "submit"
    /\ Submit(n, fault)
    /\ pc' = [pc EXCEPT ![g] = "idle"]
    /\ local' = [local EXCEPT ![g] = NoLocal]
    /\ UNCHANGED <<args, bufferMutex, rangeVars, dataVars>>

InitConc == InitWith(VarSchemas, {"TILEDB_READ"})

NextConc ==
    \E g \in Goroutines :
       \/ \E op \in {"SetBuffer", "SetBufferVar"}, f \in ExampleFields,
             o \in ExampleOffsets, b \in [kind : ExampleKinds, len : {MaxLen}] :
             BindCall(g, op, f, IF op = "SetBuffer" THEN NoSlice ELSE o, b)
       \/ BindLock(g)
       \/ \E fault \in BOOLEAN : BindReturn(g, fault)
       \/ SubmitCall(g)
       \/ \E n \in {MaxLen}, fault \in BOOLEAN : SubmitReturn(g, n, fault)

SpecConc == InitConc /\ [][NextConc]_vars

\* Two goroutines on one query, with the calls that take no lock: an unsafe
\* bind has the engine register the memory and then stores the entry in
\* q.resultBufferElements (query.go 192-204, 979-993); ResultBufferElements
\* ranges over that map (query.go 1243-1298).
UnsafeCall(g, op, f, o, b) ==
    /\ pc[g] = "idle"
    /\ pc' = [pc EXCEPT ![g] = "store"]
    /\ local' = [local EXCEPT ![g] = [op |-> op, field |-> f, buffer |-> b, offset |-> o]]
    /\ UNCHANGED <<schema, queryType, queryVars, ret, args, bufferMutex, rangeVars, dataVars>>

UnsafeReturn(g, fault) ==
    /\ pc[g] = "store"
    /\ IF local[g].op = "SetBufferUnsafe"
       THEN SetBufferUnsafe(local[g].field, local[g].buffer,
                            local[g].buffer.len * SizeofKind(local[g].buffer.kind), fault)
       ELSE SetBufferVarUnsafe(local[g].field, local[g].offset,
                               local[g].offset.len * OffsetWidth, local[g].buffer,
                               local[g].buffer.len * SizeofKind(local[g].buffer.kind), fault)
    /\ pc' = [pc EXCEPT ![g] = "idle"]
    /\ local' = [local EXCEPT ![g] = NoLocal]
    /\ UNCHANGED <<args, bufferMutex, rangeVars, dataVars>>

ElementsCall(g) ==
    /\ pc[g] = "idle"
    /\ pc' = [pc EXCEPT ![g] = "range"]
    /\ local' = [local EXCEPT ![g] = [NoLocal EXCEPT !.op = "ResultBufferElements"]]
    /\ UNCHANGED <<schema, queryType, queryVars, ret, args, bufferMutex, rangeVars, dataVars>>

ElementsReturn(g) ==
    /\ pc[g] = "range"
    /\ ResultBufferElements
    /\ pc' = [pc EXCEPT ![g] = "idle"]
    /\ local' = [local EXCEPT ![g] = NoLocal]
    /\ UNCHANGED <<args, bufferMutex, rangeVars, dataVars>>

InitRace == InitWith(VarSchemas, {"TILEDB_READ"})

NextRace ==
    \E g \in Goroutines :
       \/ \E op \in {"SetBuffer", "SetBufferVar"}, f \in ExampleFields,
             o \in ExampleOffsets, b \in [kind : ExampleKinds, len : {MaxLen}] :
             BindCall(g, op, f, IF op = "SetBuffer" THEN NoSlice ELSE o, b)
       \/ BindLock(g)
       \/ BindReturn(g, FALSE)
       \/ \E op \in {"SetBufferUnsafe", "SetBufferVarUnsafe"}, f \in ExampleFields,
             o \in ExampleOffsets, b \in [kind : {"Uint32"}, len : {MaxLen}] :
             UnsafeCall(g, op, f, IF op = "SetBufferUnsafe" THEN NoSlice ELSE o, b)
       \/ \E fault \in BOOLEAN : UnsafeReturn(g, fault)
       \/ ElementsCall(g)
       \/ ElementsReturn(g)

SpecRace == InitRace /\ [][NextRace]_vars

\* ------------------------------------------------------------ array data
\* The arrays of the examples.  Both have int32 dimensions "rows" and "cols"
\* and row-major tile and cell order.  The sparse one is 4x4 (query.go
\* 1820-1826); the dense one has rows [1,4], cols [1,3] and 2x2 space
\* tiles, so that its domain is expanded to whole tiles (query.go 2008-2013).
SparseDomain == <<1, 4, 1, 4>>
DenseDomain == <<1, 4, 1, 3>>
TileExtent == 2

\* The cells of a subarray <<row low, row high, col low, col high>>, bounds
\* inclusive (query.go 94-95).
CellsOf(sub) == {<<r, c>> : r \in sub[1]..sub[2], c \in sub[3]..sub[4]}

RowMajorBefore(x, y) == x[1] < y[1] \/ (x[1] = y[1] /\ x[2] < y[2])

\* The space tile of a cell.
TileOf(cell, dom) ==
    <<(cell[1] - dom[1]) \div TileExtent, (cell[2] - dom[3]) \div TileExtent>>

\* Global order: tile by tile in tile order, and in cell order in a tile.
GlobalBefore(x, y, dom) ==
    \/ RowMajorBefore(TileOf(x, dom), TileOf(y, dom))
    \/ TileOf(x, dom) = TileOf(y, dom) /\ RowMajorBefore(x, y)

\* Whether x comes before y in a layout.  An unordered write has no order
\* of its own; its cells are sorted as they are stored.
Before(layout, x, y, dom) ==
    IF layout = "TILEDB_GLOBAL_ORDER" THEN GlobalBefore(x, y, dom)
    ELSE RowMajorBefore(x, y)

\* The cells of a set in the order of a layout.
RECURSIVE InOrder(_, _, _)
InOrder(S, layout, dom) ==
    IF S = {} THEN <<>>
    ELSE LET first == CHOOSE x \in S : \A y \in S \ {x} : Before(layout, x, y, dom)
         IN <<first>> \o InOrder(S \ {first}, layout, dom)

PositionIn(order, cell) == CHOOSE i \in 1..Len(order) : order[i] = cell

\* A finite map that keeps its entries when another is put over it.
MergeKeepsOld(old, new) ==
    [c \in DOMAIN old \cup DOMAIN new |-> IF c \in DOMAIN old THEN old[c] ELSE new[c]]

\* A finite map with the entries of another put over it.
Merge(old, new) ==
    [c \in DOMAIN old \cup DOMAIN new |-> IF c \in DOMAIN new THEN new[c] ELSE old[c]]

\* The subarray a query works on: the one set, else the whole domain.
SubarrayOf(dom) == IF engSubarray = <<>> THEN dom ELSE engSubarray

\* The elements one cell takes in a field's buffer: a coordinate per
\* dimension, one attribute value (query.go 1926-1928).
CellElems(name) == IF name = TILEDB_COORDS THEN Len(schema.dims) ELSE 1

\* The coordinates a sparse write pairs with no attribute value.
CellsWrittenUnpaired(coords, data) ==
    [c \in {<<coords[2 * i - 1], coords[2 * i]>> : i \in 1..(Len(coords) \div 2)} |-> data[1]]

\* The cells a sparse write hands the engine: the i-th pair of the
\* coordinates buffer with the i-th attribute value (query.go 1858-1860).
CellsWritten(coords, data) ==
    [c \in {<<coords[2 * i - 1], coords[2 * i]>> : i \in 1..(Len(coords) \div 2)} |->
        data[CHOOSE i \in 1..(Len(coords) \div 2) : <<coords[2 * i - 1], coords[2 * i]>> = c]]

\* The cells a dense write hands the engine: the cells of the subarray in
\* the order of the layout, with the values of the buffer in turn.
CellsFilled(sub, layout, dom, data) ==
    LET order == InOrder(CellsOf(sub), layout, dom)
    IN [c \in CellsOf(sub) |-> data[PositionIn(order, c)]]

\* The submits tried: a write has the attribute's buffer, a sparse write
\* the coordinates' too, with a value per cell; a read has a buffer, and a
\* read of a dense array is of cells that were written.
WellFormed(dense, dom) ==
    /\ DOMAIN bufData = DOMAIN engBuffers
    /\ DOMAIN bufData # {}
    /\ (queryType = "TILEDB_READ" /\ dense) =>
          CellsOf(SubarrayOf(dom)) \subseteq DOMAIN engArray.stored
    /\ queryType = "TILEDB_WRITE" =>
          /\ "a" \in DOMAIN bufData
          /\ IF dense
             THEN /\ DOMAIN bufData = {"a"}
                  /\ Len(bufData["a"]) = Cardinality(CellsOf(SubarrayOf(dom)))
             ELSE /\ TILEDB_COORDS \in DOMAIN bufData
                  /\ Len(bufData[TILEDB_COORDS]) = 2 * Len(bufData["a"])

\* The engine at the end of a write.  A write in global order is kept by
\* the query until Finalize flushes it (query.go 1663-1665, 2064-2066).
EngineWrites(dense, dom) ==
    LET new == IF dense
               THEN CellsFilled(SubarrayOf(dom), engLayout, dom, bufData["a"])
               ELSE CellsWritten(bufData[TILEDB_COORDS], bufData["a"])
    IN [status |-> "TILEDB_COMPLETED",
        array |-> IF engLayout = "TILEDB_GLOBAL_ORDER"
                  THEN [engArray EXCEPT !.pending = Merge(engArray.pending, new)]
                  ELSE [engArray EXCEPT !.stored = Merge(engArray.stored, new)],
        bufData |-> bufData,
        cursor |-> engCursor,
        sizes |-> cells]

\* The engine at the end of a read: the cells of the subarray (a dense
\* array has them all, a sparse one those written) in the order of the
\* layout, from the one after those already delivered, as many as every
\* buffer has room for; the byte counts of what was delivered.
EngineReads(dense, dom) ==
    LET stored == engArray.stored
        hits == IF dense THEN CellsOf(SubarrayOf(dom))
                ELSE DOMAIN stored \cap CellsOf(SubarrayOf(dom))
        room(f) == Len(bufData[f]) \div CellElems(f)
        Delivering(order, n) ==
            LET remaining == Len(order) - engCursor
                element(f, i) ==
                    IF f = TILEDB_COORDS
                    THEN order[engCursor + ((i + 1) \div 2)][IF i % 2 = 1 THEN 1 ELSE 2]
                    ELSE stored[order[engCursor + i]]
                bytes(f) == n * CellElems(f) * SizeofKind(engBuffers[f].data.kind)
            IN [status |-> IF n < remaining THEN "TILEDB_INCOMPLETE" ELSE "TILEDB_COMPLETED",
                array |-> engArray,
                bufData |-> [f \in DOMAIN bufData |->
                                [i \in 1..Len(bufData[f]) |->
                                    IF i <= n * CellElems(f) THEN element(f, i)
                                    ELSE bufData[f][i]]],
                cursor |-> IF n < remaining THEN engCursor + n ELSE 0,
                sizes |-> [i \in CellIds |->
                              IF \E f \in DOMAIN engBuffers : engBuffers[f].dcell = i
                              THEN bytes(CHOOSE f \in DOMAIN engBuffers : engBuffers[f].dcell = i)
                              ELSE cells[i]]]
        \* The number of cells delivered: all that are left, or as many as
        \* the shortest buffer has room for.
        Fitting(order) ==
            {k \in 0..(Len(order) - engCursor) :
                /\ \A f \in DOMAIN bufData : k <= room(f)
                /\ k = Len(order) - engCursor \/ \E f \in DOMAIN bufData : k = room(f)}
    IN CHOOSE out \in UNION {{Delivering(order, n) : n \in Fitting(order)} :
                                order \in {InOrder(hits, engLayout, dom)}} : TRUE

\* NewQuery (query.go 57-81) on the array opened for reading or writing: a
\* fresh query; the array keeps what was written to it.
NewQuery(type) ==
    /\ queryType' = type
    /\ tiledbQuery' = "alloc"
    /\ buffers' = EmptyBag
    /\ resultBufferElements' = EmptyMap
    /\ cells' = [i \in CellIds |-> 0]
    /\ engBuffers' = EmptyMap
    /\ engLayout' = "TILEDB_ROW_MAJOR"
    /\ engStatus' = "TILEDB_UNINITIALIZED"
    /\ ret' = [NoRet EXCEPT !.op = "NewQuery"]
    /\ engSubarray' = <<>>
    /\ bufData' = <<>>
    /\ engCursor' = 0
    /\ consumed' = <<>>
    /\ UNCHANGED <<schema, released, engArray, writes>>

\* SetBuffer with a slice whose elements are given (SetCoordinates is
\* SetBuffer for the coordinates, query.go 1762-1764).
SetBufferOf(name, kind, elements) ==
    /\ SetBuffer(name, [kind |-> kind, len |-> Len(elements)], FALSE)
    /\ bufData' = IF ret'.err = "nil" THEN Put(bufData, name, elements) ELSE bufData
    /\ UNCHANGED <<engArray, engSubarray, engCursor, writes, consumed>>

\* SetSubArray with a slice of two bounds per dimension.
SetSubArrayOf(sub) ==
    /\ SetSubArray(SliceOf(ReflectKind(schema.dimType), Len(sub)), 0, FALSE)
    /\ engSubarray' = IF ret'.err = "nil" THEN sub ELSE engSubarray

\* Query.Submit (query.go 1696-1703) with the array and the buffers'
\* elements: the engine runs the query to its end before the call returns.
SubmitArray(dense, dom, fault) ==
    LET call == Call("Submit", "-") IN
    /\ WellFormed(dense, dom)
    /\ IF tiledbQuery = "nil"
       THEN /\ Fail(buffers, call, "EngineFailure")
            /\ UNCHANGED <<engStatus, engArray, bufData, engCursor, writes>>
       ELSE IF fault
       THEN /\ Fail(buffers, call, "EngineFailure")
            /\ engStatus' = "TILEDB_FAILED"
            /\ UNCHANGED <<engArray, bufData, engCursor, writes>>
       ELSE \E out \in {IF queryType = "TILEDB_WRITE"
                        THEN EngineWrites(dense, dom) ELSE EngineReads(dense, dom)} :
            /\ Return(buffers, resultBufferElements, engBuffers, out.sizes, call)
            /\ engStatus' = out.status
            /\ engArray' = out.array
            /\ bufData' = out.bufData
            /\ engCursor' = out.cursor
            /\ writes' = IF queryType = "TILEDB_WRITE"
                         THEN Append(writes, [layout |-> engLayout, sub |-> SubarrayOf(dom),
                                              data |-> bufData])
                         ELSE writes
    /\ UNCHANGED <<schema, queryType, tiledbQuery, engLayout, released, engSubarray, consumed>>

\* Query.Finalize with the array: the engine flushes what a write in
\* global order left with the query.
FinalizeArray(fault) ==
    /\ Finalize(fault)
    /\ engArray' = IF ret'.err = "nil"
                   THEN [stored |-> Merge(engArray.stored, engArray.pending), pending |-> EmptyMap]
                   ELSE engArray
    /\ UNCHANGED <<engSubarray, bufData, engCursor, writes, consumed>>

\* The loop over the results running to the end of the buffer instead of
\* to the number of results.
CellsTakenToCapacity(elems) ==
    LET resultNum == IF "a" \in DOMAIN bufData THEN Len(bufData["a"])
                     ELSE Len(bufData[TILEDB_COORDS]) \div 2
    IN [r \in 1..resultNum |->
           (IF TILEDB_COORDS \in DOMAIN bufData /\ 2 * r <= Len(bufData[TILEDB_COORDS])
            THEN <<bufData[TILEDB_COORDS][2 * r - 1], bufData[TILEDB_COORDS][2 * r]>>
            ELSE <<>>)
           \o (IF "a" \in DOMAIN bufData THEN <<bufData["a"][r]>> ELSE <<>>)]

\* The loop over the results (query.go 1920-1930): ResultBufferElements
\* gives the number of cells, and the caller takes that many from the front
\* of its buffers: <<i, j, a>> for a cell, of the buffers it has bound.
CellsTaken(elems) ==
    LET resultNum == IF "a" \in DOMAIN elems THEN elems["a"][2]
                     ELSE elems[TILEDB_COORDS][2] \div 2
    IN [r \in 1..resultNum |->
           (IF TILEDB_COORDS \in DOMAIN bufData
            THEN <<bufData[TILEDB_COORDS][2 * r - 1], bufData[TILEDB_COORDS][2 * r]>>
            ELSE <<>>)
           \o (IF "a" \in DOMAIN bufData THEN <<bufData["a"][r]>> ELSE <<>>)]

TakeResults ==
    /\ ResultBufferElements
    /\ consumed' = IF ret'.err = "nil" THEN consumed \o CellsTaken(ret'.elems) ELSE consumed
    /\ UNCHANGED <<engArray, engSubarray, bufData, engCursor, writes>>

\* The sparse example (query.go 1854-1933), one statement at a time, with
\* the inputs varied: the cells written and their order, the subarray read,
\* the lengths of the result buffers.  An error ends the program
\* (checkError).  A read that is TILEDB_INCOMPLETE is submitted again, after
\* the results are taken and, at the caller's choice, a buffer is bound
\* anew (query.go 1684-1693); when nothing was delivered a longer buffer
\* is bound first.
SparsePool == <<<<1, 1>>, <<2, 4>>, <<2, 3>>, <<4, 2>>>>
MaxCells == MaxLen + 1

\* Coordinate buffers: cells of the pool, in every order.
CoordsOf(p) == [i \in 1..(2 * Len(p)) |-> SparsePool[p[(i + 1) \div 2]][IF i % 2 = 1 THEN 1 ELSE 2]]
CellOrders(n) ==
    {p \in [1..n -> 1..Len(SparsePool)] : \A i, j \in 1..n : i # j => p[i] # p[j]}
SparseCoords(n) == {CoordsOf(p) : p \in CellOrders(n)}
SparseSubarrays == {<<1, 2, 2, 4>>, <<1, 4, 1, 4>>, <<3, 3, 1, 4>>}

Zeros(n) == [i \in 1..n |-> 0]
Counting(n) == [i \in 1..n |-> i]

At(label) == pc[Caller] = label
Goto(label) == pc' = [pc EXCEPT ![Caller] = label]
\* The next statement, or the end of the program on an error.
Then(label) == pc' = [pc EXCEPT ![Caller] = IF ret'.err = "nil" THEN label ELSE "failed"]

progFrame == <<args, bufferMutex, local, rangeVars>>

SparseWriteLayout ==
    /\ At("start")
    /\ SetLayout("TILEDB_UNORDERED") /\ Then("w_data")
    /\ UNCHANGED <<progFrame, dataVars>>

SparseWriteData(n) ==
    /\ At("w_data")
    /\ SetBufferOf("a", "Uint32", Counting(n)) /\ Then("w_coords")
    /\ UNCHANGED progFrame

SparseWriteCoords(coords) ==
    /\ At("w_coords")
    /\ Len(coords) = 2 * Len(bufData["a"])
    /\ SetBufferOf(TILEDB_COORDS, "Int32", coords) /\ Then("w_submit")
    /\ UNCHANGED progFrame

SparseWriteSubmit(fault) ==
    /\ At("w_submit")
    /\ SubmitArray(FALSE, SparseDomain, fault) /\ Then("r_new")
    /\ UNCHANGED progFrame

SparseReadQuery ==
    /\ At("r_new")
    /\ NewQuery("TILEDB_READ") /\ Goto("r_sub")
    /\ UNCHANGED progFrame

SparseReadSubarray(sub) ==
    /\ At("r_sub")
    /\ SetSubArrayOf(sub) /\ Then("r_layout")
    /\ UNCHANGED <<bufferMutex, local, engArray, bufData, engCursor, writes, consumed>>

SparseReadLayout ==
    /\ At("r_layout")
    /\ SetLayout("TILEDB_ROW_MAJOR") /\ Then("r_data")
    /\ UNCHANGED <<progFrame, dataVars>>

\* The result buffers: one for the attribute, one for the coordinates, or
\* both.  A coordinates buffer too short for one cell is tried alone.
SparseReadData(n) ==
    /\ At("r_data")
    /\ SetBufferOf("a", "Uint32", Zeros(n)) /\ Then("r_coords")
    /\ UNCHANGED progFrame

SparseReadCoords(n) ==
    /\ At("r_coords") \/ At("r_data")
    /\ At("r_coords") => n >= 2
    /\ SetBufferOf(TILEDB_COORDS, "Int32", Zeros(n)) /\ Then("r_submit")
    /\ UNCHANGED progFrame

SparseReadNoCoords ==
    /\ At("r_coords")
    /\ Goto("r_submit")
    /\ UNCHANGED <<schema, queryType, queryVars, ret, progFrame, dataVars>>

SparseReadSubmit(fault) ==
    /\ At("r_submit")
    /\ SubmitArray(FALSE, SparseDomain, fault) /\ Then("r_elems")
    /\ UNCHANGED progFrame

SparseReadResults ==
    /\ At("r_elems")
    /\ TakeResults
    /\ pc' = [pc EXCEPT ![Caller] =
                 IF ret'.err # "nil" THEN "failed"
                 ELSE IF engStatus # "TILEDB_INCOMPLETE" THEN "done"
                 ELSE IF consumed' = consumed THEN "r_enlarge"
                 ELSE "r_submit"]
    /\ UNCHANGED progFrame

\* A longer buffer for a field, before the query is submitted again.
SparseReadEnlarge(name, n) ==
    /\ At("r_enlarge") \/ (At("r_submit") /\ engStatus = "TILEDB_INCOMPLETE")
    /\ name \in DOMAIN bufData
    /\ n > Len(bufData[name])
    /\ SetBufferOf(name, engBuffers[name].data.kind, Zeros(n)) /\ Then("r_submit")
    /\ UNCHANGED progFrame

InitSparse ==
    /\ InitWith({sc \in ExampleSchemas : ~sc.attrVar}, {"TILEDB_WRITE"})
    /\ At("idle")

NextSparse ==
    \/ At("idle") /\ Goto("start")
         /\ UNCHANGED <<schema, queryType, queryVars, ret, progFrame, dataVars>>
    \/ SparseWriteLayout
    \/ \E n \in {1, MaxCells} : SparseWriteData(n)
    \/ \E n \in {1, MaxCells} : \E coords \in SparseCoords(n) : SparseWriteCoords(coords)
    \/ \E fault \in BOOLEAN : SparseWriteSubmit(fault)
    \/ SparseReadQuery
    \/ \E sub \in SparseSubarrays : SparseReadSubarray(sub)
    \/ SparseReadLayout
    \/ \E n \in {1, 2, MaxCells} : SparseReadData(n)
    \/ \E n \in {1, 2, 2 * MaxCells} : SparseReadCoords(n)
    \/ SparseReadNoCoords
    \/ \E fault \in BOOLEAN : SparseReadSubmit(fault)
    \/ SparseReadResults
    \/ \E name \in {"a", TILEDB_COORDS}, n \in {2, MaxCells, 2 * MaxCells} :
          SparseReadEnlarge(name, n)

SpecSparse == InitSparse /\ [][NextSparse]_vars /\ WF_vars(NextSparse)

\* The dense example (query.go 2039-2137), one statement at a time, with
\* the inputs varied: some writes, each by a query of its own, in global
\* order followed by Finalize or in row-major order, and then a read in
\* row-major order of a subarray that was written.  A write in global order
\* is of whole tiles, as the example's is: the last column, half a tile,
\* is written in row-major order.
MaxWrites == 2
DenseSchema ==
    [dimType |-> "TILEDB_INT32", dimVar |-> FALSE,
     attrType |-> "TILEDB_INT32", attrVar |-> FALSE, dims |-> ExampleDims]
DenseSubarrays ==
    {<<1, 4, 1, 2>>, <<1, 4, 3, 3>>, <<1, 4, 1, 3>>, <<1, 2, 1, 2>>, <<2, 3, 2, 3>>}
TileAligned(sub, dom) ==
    /\ (sub[1] - dom[1]) % TileExtent = 0 /\ (sub[2] - dom[1] + 1) % TileExtent = 0
    /\ (sub[3] - dom[3]) % TileExtent = 0 /\ (sub[4] - dom[3] + 1) % TileExtent = 0
\* The values of a write: counted on from those written before.
CountingOn(n) ==
    LET before == IF writes = <<>> THEN 0
                  ELSE writes[Len(writes)].data["a"][Len(writes[Len(writes)].data["a"])]
    IN [i \in 1..n |-> before + i]

DenseWriteQuery ==
    /\ At("idle") \/ At("d_new")
    /\ Len(writes) < MaxWrites
    /\ NewQuery("TILEDB_WRITE") /\ Goto("d_layout")
    /\ UNCHANGED progFrame

DenseWriteLayout(layout) ==
    /\ At("d_layout")
    /\ SetLayout(layout) /\ Then("d_data")
    /\ UNCHANGED <<progFrame, dataVars>>

DenseWriteData(n) ==
    /\ At("d_data")
    /\ SetBufferOf("a", "Int32", CountingOn(n)) /\ Then("d_sub")
    /\ UNCHANGED progFrame

DenseWriteSubarray(sub) ==
    /\ At("d_sub")
    /\ Cardinality(CellsOf(sub)) = Len(bufData["a"])
    /\ engLayout = "TILEDB_GLOBAL_ORDER" => TileAligned(sub, DenseDomain)
    /\ SetSubArrayOf(sub) /\ Then("d_submit")
    /\ UNCHANGED <<bufferMutex, local, engArray, bufData, engCursor, writes, consumed>>

DenseWriteSubmit(fault) ==
    /\ At("d_submit")
    /\ SubmitArray(TRUE, DenseDomain, fault)
    /\ Then(IF engLayout = "TILEDB_GLOBAL_ORDER" THEN "d_finalize" ELSE "d_new")
    /\ UNCHANGED progFrame

DenseWriteFinalize(fault) ==
    /\ At("d_finalize")
    /\ FinalizeArray(fault) /\ Then("d_new")
    /\ UNCHANGED progFrame

DenseReadQuery ==
    /\ At("d_new")
    /\ writes # <<>>
    /\ NewQuery("TILEDB_READ") /\ Goto("dr_sub")
    /\ UNCHANGED progFrame

DenseReadSubarray(sub) ==
    /\ At("dr_sub")
    /\ CellsOf(sub) \subseteq DOMAIN engArray.stored
    /\ SetSubArrayOf(sub) /\ Then("dr_layout")
    /\ UNCHANGED <<bufferMutex, local, engArray, bufData, engCursor, writes, consumed>>

DenseReadLayout ==
    /\ At("dr_layout")
    /\ SetLayout("TILEDB_ROW_MAJOR") /\ Then("dr_data")
    /\ UNCHANGED <<progFrame, dataVars>>

DenseReadData ==
    /\ At("dr_data")
    /\ SetBufferOf("a", "Int32", Zeros(Cardinality(CellsOf(engSubarray)))) /\ Then("dr_submit")
    /\ UNCHANGED progFrame

DenseReadSubmit(fault) ==
    /\ At("dr_submit")
    /\ SubmitArray(TRUE, DenseDomain, fault) /\ Then("done")
    /\ UNCHANGED progFrame

InitDense ==
    /\ InitWith({DenseSchema}, {"TILEDB_WRITE"})
    /\ At("idle")

NextDense ==
    \/ DenseWriteQuery
    \/ \E layout \in {"TILEDB_GLOBAL_ORDER", "TILEDB_ROW_MAJOR"} : DenseWriteLayout(layout)
    \/ \E n \in {Cardinality(CellsOf(sub)) : sub \in DenseSubarrays} : DenseWriteData(n)
    \/ \E sub \in DenseSubarrays : DenseWriteSubarray(sub)
    \/ \E fault \in BOOLEAN : DenseWriteSubmit(fault)
    \/ \E fault \in BOOLEAN : DenseWriteFinalize(fault)
    \/ DenseReadQuery
    \/ \E sub \in DenseSubarrays : DenseReadSubarray(sub)
    \/ DenseReadLayout
    \/ DenseReadData
    \/ \E fault \in BOOLEAN : DenseReadSubmit(fault)

SpecDense == InitDense /\ [][NextDense]_vars

\* ------------------------------------------------------------ properties
BindOps == {"SetBuffer", "SetBufferVar"}

\* The last call was a bind whose field the schema resolves, and the
\* datatype the schema declares for it.
BindResolved ==
    /\ ret.op \in BindOps
    /\ (IF ret.op = "SetBuffer" THEN FixedFieldType(ret.field)
        ELSE VarFieldType(ret.field)).err = "nil"
DeclaredType ==
    (IF ret.op = "SetBuffer" THEN FixedFieldType(ret.field) ELSE VarFieldType(ret.field)).type

\* The last bind was handed an empty data slice or, in the variable form,
\* an empty offsets slice.
BindEmpty ==
    \/ args.buffer.len = 0
    \/ ret.op = "SetBufferVar" /\ args.offset.len = 0

\* The slices the engine holds for a field, as a bag.
PinsOf(eng, name) ==
    IF name \notin DOMAIN eng THEN EmptyBag
    ELSE SetToBag({eng[name].data}) (+)
         (IF eng[name].offs = NoSlice THEN EmptyBag ELSE SetToBag({eng[name].offs}))

\* C1: a bind call (SetBuffer, SetBufferVar) that returns an error leaves
\* the pin table with exactly the contents it had before the call.
C1_FailedBindLeavesPins ==
    [][(ret'.op \in BindOps /\ ret'.err # "nil") => buffers' = buffers]_vars

\* C2: a successful bind of a field releases the pins of the buffers the
\* field was bound to before, pins the new ones, and leaves every other pin.
C2_RebindReleasesPins ==
    [][(ret'.op \in BindOps /\ ret'.err = "nil") =>
          buffers' = (buffers (-) PinsOf(engBuffers, ret'.field))
                     (+) PinsOf(engBuffers', ret'.field)]_vars

\* C3, as stated: a bind of an empty data or offsets slice to a field of the
\* schema fails with EmptyBuffer, whatever the kind of the slice.
C3_EmptyAlwaysEmptyBuffer ==
    (BindResolved /\ BindEmpty) => ret.err = "EmptyBuffer"

\* C3, as the code has it: a bind of an empty data or offsets slice to a
\* field of the schema always fails, with EmptyBuffer when the data slice is
\* of the field's kind and with TypeMismatch when it is of another kind.
C3_EmptyFails ==
    (BindResolved /\ BindEmpty) =>
        ret.err = IF ReflectKind(DeclaredType) = args.buffer.kind
                  THEN "EmptyBuffer" ELSE "TypeMismatch"

C3_Witness ==
    /\ ret.op = "SetBufferVar"
    /\ args.offset.len = 0
    /\ args.buffer.len > 0
    /\ ret.err = "EmptyBuffer"

\* C4: a bind of a slice whose element kind differs from the kind of the
\* field's declared datatype fails with TypeMismatch, registers nothing
\* with the engine, records no binding and pins nothing.
C4_KindMismatch ==
    (BindResolved /\ ReflectKind(DeclaredType) # args.buffer.kind) =>
        /\ ret.err = "TypeMismatch"
        /\ engBuffers = EmptyMap
        /\ resultBufferElements = EmptyMap
        /\ buffers = EmptyBag

C4_Witness ==
    /\ ret.op = "SetBufferVar"
    /\ ret.err = "TypeMismatch"
    /\ args.buffer.len > 0
    /\ args.offset.len > 0
    /\ schema.attrType = "TILEDB_FLOAT64"
    /\ args.buffer.kind = "Float32"

\* C5: a successful bind of n elements to a field of datatype D registers
\* with the engine, and returns to the caller, a data size of n times the
\* width of D; the variable form registers and returns an offsets size of
\* 8 times the number of offsets.
C5_ByteSizes ==
    (ret.op \in BindOps /\ ret.err = "nil") =>
        LET reg == engBuffers[ret.field] IN
        /\ ret.dptr = reg.dcell
        /\ cells[reg.dcell] = args.buffer.len * DatatypeSize(DeclaredType)
        /\ reg.data = args.buffer
        /\ ret.op = "SetBufferVar" =>
              /\ ret.optr = reg.ocell
              /\ cells[reg.ocell] = 8 * args.offset.len

C5_Witness ==
    /\ ret.op = "SetBufferVar"
    /\ ret.err = "nil"
    /\ args.buffer.len = MaxLen
    /\ schema.attrType = "TILEDB_STRING_UTF16"
    /\ cells[ret.dptr] = 2 * MaxLen

\* C6: whenever Free has returned, it returned no error, the engine handle
\* has been released once and no more, and the query has no handle, no pins
\* and no bindings: a second Free leaves what the first left.
C6_FreeIdempotent ==
    ret.op = "Free" =>
        /\ ret.err = "nil"
        /\ released = 1
        /\ tiledbQuery = "nil"
        /\ buffers = EmptyBag
        /\ resultBufferElements = EmptyMap

C6_Witness ==
    /\ ret.op = "Free"
    /\ ret.handle = "nil"
    /\ released = 1

\* C7: after a successful Finalize the element counts ResultBufferElements
\* computes are zero for every bound field, and after Free the binding table
\* and the pin table are empty.
C7_FinalizeZeroesSizes ==
    /\ (ret.op = "Finalize" /\ ret.err = "nil") =>
           \A f \in DOMAIN resultBufferElements :
               Elements(f, resultBufferElements[f]) = <<0, 0>>
    /\ ret.op = "Free" => (resultBufferElements = EmptyMap /\ buffers = EmptyBag)

\* C8: a Finalize that succeeds on a query that is not a global-order write
\* leaves the pin table, the binding table and the engine's registrations
\* as they were.
C8_FinalizeNoOp ==
    [][(/\ ret'.op = "Finalize"
        /\ ret'.err = "nil"
        /\ ~(queryType = "TILEDB_WRITE" /\ engLayout = "TILEDB_GLOBAL_ORDER")) =>
          /\ buffers' = buffers
          /\ resultBufferElements' = resultBufferElements
          /\ engBuffers' = engBuffers]_vars

\* C9: the pin table is never modified while a goroutine is inside Submit
\* on the same query.
C9_NoBindDuringSubmit ==
    [][buffers' # buffers => \A g \in Goroutines : pc[g] # "submit"]_vars

\* C10: Buffer and BufferVar return an error, and neither a view nor a
\* fault, when the field has no binding on the query or the schema does not
\* resolve the name.
C10_UnboundFieldFails ==
    (/\ ret.op \in {"Buffer", "BufferVar"}
     /\ \/ ret.field \notin DOMAIN resultBufferElements
        \/ FixedFieldType(ret.field).err # "nil") =>
        ret.err \notin {"nil", "panic"}

\* C11: the data view Buffer and BufferVar return covers exactly the bytes
\* the engine reports for the field (its length times the width of its
\* element type is the size in the field's size cell), and the offsets view
\* of BufferVar has one element per 8 bytes of the offsets size.
C11_ViewCoversReportedBytes ==
    (ret.op \in {"Buffer", "BufferVar"} /\ ret.err = "nil") =>
        LET reg == engBuffers[ret.field] IN
        /\ ret.view.len * SizeofKind(ret.view.kind) = cells[reg.dcell]
        /\ ret.op = "BufferVar" => ret.oview.len * 8 = cells[reg.ocell]

C14_CountsTimesWidth ==
    (ret.op = "ResultBufferElements" /\ ret.err = "nil" /\ engStatus = "TILEDB_COMPLETED") =>
        \A f \in DOMAIN engBuffers :
            LET width == DatatypeSize(IF f = TILEDB_COORDS THEN schema.dimType
                                      ELSE schema.attrType)
            IN /\ ret.elems[f][2] * width = cells[engBuffers[f].dcell]
               /\ engBuffers[f].ocell # 0 => ret.elems[f][1] * 8 = cells[engBuffers[f].ocell]

C14_Witness ==
    /\ ret.op = "ResultBufferElements"
    /\ engStatus = "TILEDB_COMPLETED"
    /\ schema.attrType = "TILEDB_UINT64"
    /\ TILEDB_COORDS \in DOMAIN ret.elems
    /\ ret.elems[TILEDB_COORDS][2] = 1
    /\ cells[engBuffers[TILEDB_COORDS].dcell] = 4

SentinelBoundFixed ==
    /\ ret.op = "SetBuffer" /\ ret.field = TILEDB_COORDS /\ ret.err = "nil"
    /\ BagCardinality(buffers) = 1

C18_GetRangesComplete ==
    ret.op = "GetRanges" =>
        IF ret.err = "nil"
        THEN /\ DOMAIN ret.elems = {Dim(d).name : d \in 0..(NDim - 1)}
             /\ \A d \in 0..(NDim - 1) :
                  LET seq == ret.elems[Dim(d).name] IN
                  /\ Len(seq) = GetRangeNumResult(d, FALSE).num
                  /\ Len(seq) = Len(addedRanges[d + 1])
                  /\ \A i \in 1..Len(seq) :
                       /\ seq[i] = <<GetRangeResult(d, i - 1, FALSE).start,
                                     GetRangeResult(d, i - 1, FALSE).end>>
                       /\ seq[i] = <<addedRanges[d + 1][i].start, addedRanges[d + 1][i].end>>
        ELSE ret.elems = <<>>

C18_Witness ==
    /\ ret.op = "GetRanges" /\ ret.err = "nil"
    /\ DOMAIN ret.elems = {"rows", "cols"}
    /\ ret.elems["cols"] = <<>>
    /\ Len(ret.elems["rows"]) = 2
    /\ ret.elems["rows"][1] # ret.elems["rows"][2]

\* The state in which GetRanges has returned no map because a lookup failed
\* after the first dimension's ranges had been collected.
GetRangesFailedLate ==
    /\ ret.op = "GetRanges" /\ ret.err # "nil"
    /\ args.dimIdx = 1
    /\ Len(engRanges[1]) > 0

\* The ranges a query on a fresh handle holds after one call.
RangeCount(d) == Len(engRanges[d + 1])
NoRangeAdded == \A d \in 0..(NDim - 1) : RangeCount(d) = 0

\* C16: AddRangeVar on a dimension that is not of byte/string kind fails
\* and leaves the range count of every dimension as it was; on a string
\* dimension with byte slices for start and end it succeeds (unless the
\* engine itself refuses the range), the count of that dimension grows by
\* exactly one and the count of every other dimension stays.
C16_AddRangeVarByteOnly ==
    (/\ ret.op = "AddRangeVar"
     /\ HasDimIdx(args.dimIdx)
     /\ args.start.form = "slice" /\ args.start.kind = "Uint8"
     /\ args.end.form = "slice" /\ args.end.kind = "Uint8"
     /\ RangeWidth(Dim(args.dimIdx).type) # 1 \/ Dim(args.dimIdx).var) =>
        IF Dim(args.dimIdx).var
        THEN \/ /\ ret.err = "nil"
                /\ \A d \in 0..(NDim - 1) :
                      RangeCount(d) = IF d = args.dimIdx THEN 1 ELSE 0
             \/ ret.err = "EngineFailure" /\ NoRangeAdded
        ELSE ret.err \notin {"nil", "panic"} /\ NoRangeAdded

\* The state in which AddRangeVar has aborted on an empty start.
AddRangeVarPanicsOnEmpty ==
    /\ ret.op = "AddRangeVar" /\ ret.err = "panic"
    /\ args.dimIdx = 0 /\ Dim(0).var
    /\ args.start = SliceOf("Uint8", 0) /\ args.end = SliceOf("Uint8", 1)

\* C17: AddRange registers a range only if start and end are of one kind,
\* that kind is the kind of the dimension's datatype, and the dimension is
\* not variable-size; a kind that differs fails with TypeMismatch, a
\* variable-size dimension is rejected, and a failed call adds no range.
C17_AddRangeKindChecked ==
    (ret.op = "AddRange" /\ HasDimIdx(args.dimIdx)) =>
        LET dim == Dim(args.dimIdx)
            kind == RangeKind(dim.type)
        IN
        /\ RangeCount(args.dimIdx) > 0 =>
              /\ ValueKind(args.start) = ValueKind(args.end)
              /\ ValueKind(args.start) = kind
              /\ ~dim.var
        /\ (ValueKind(args.start) # ValueKind(args.end) \/ ValueKind(args.start) # kind) =>
              ret.err = "TypeMismatch"
        /\ dim.var => ret.err # "nil"
        /\ ret.err # "nil" => NoRangeAdded

\* The state in which AddRange has registered an int64 range on an int32
\* dimension.
MismatchedRangeRegistered ==
    /\ ret.op = "AddRange" /\ ret.err = "nil"
    /\ args.dimIdx = 0 /\ Dim(0).type = "TILEDB_INT32"
    /\ args.start = Scalar("Int64", 1) /\ args.end = Scalar("Int64", 200)
    /\ RangeCount(0) = 1

\* C20: no configuration operation aborts on bad input: SetSubArray,
\* AddRange, AddRangeVar and GetRange return an error value, never a panic,
\* whatever they are handed.
C20_ConfigurationNeverPanics ==
    ret.op \in {"SetSubArray", "AddRange", "AddRangeVar", "GetRange"} =>
        ret.err # "panic"

\* The states in which SetSubArray has aborted on an empty slice of the
\* domain's type, and AddRange on a nil start and end.
SetSubArrayPanicsOnEmpty ==
    /\ ret.op = "SetSubArray" /\ ret.err = "panic"
    /\ args.start = SliceOf(ReflectKind(schema.dimType), 0)

AddRangePanicsOnNil ==
    /\ ret.op = "AddRange" /\ ret.err = "panic"
    /\ args.start = NilValue /\ args.end = NilValue

\* C26: the datatype-to-kind mapping is total over the datatypes a field can
\* declare: for each of them SetBuffer accepts a buffer of one concrete
\* element kind, and that kind is the element kind of the view Buffer
\* returns for the datatype.
C26_KindMappingTotal ==
    (/\ ret.op = "SetBuffer"
     /\ ret.field \in AttrNames
     /\ ~schema.attrVar
     /\ args.buffer.len > 0) =>
        /\ args.buffer.kind = ViewKind(schema.attrType) =>
              ret.err \in {"nil", "EngineFailure"}
        /\ ret.err = "nil" => args.buffer.kind = ViewKind(schema.attrType)

\* The state in which SetBuffer has refused a byte buffer for an attribute
\* of the character type.
CharBufferRefused ==
    /\ ret.op = "SetBuffer" /\ ret.field = "a"
    /\ schema.attrType = "TILEDB_CHAR" /\ ~schema.attrVar
    /\ args.buffer = [kind |-> "Uint8", len |-> 1]
    /\ ret.err = "TypeMismatch"

\* C28: pinning safety. Whenever a Submit executes, every slice the engine
\* holds the address of from a typed bind is still in the query's pin table,
\* also when the Submit follows a Finalize with no bind in between.
C28_SubmittedBuffersPinned ==
    ret.op = "Submit" =>
        \A f \in DOMAIN engBuffers : PinsOf(engBuffers, f) \sqsubseteq buffers

\* The state in which a Submit has run on a registered buffer after Finalize
\* emptied the pin table.
SubmitAfterFinalize ==
    /\ ret.op = "Submit" /\ ret.err = "nil"
    /\ DOMAIN engBuffers # {}
    /\ buffers = EmptyBag

\* C29: the binding table under bind calls of the four forms. It has one
\* entry per field bound successfully at least once (the fields the engine
\* has a registration for). A successful bind of a field puts or replaces
\* that field's entry and no other, and the entry's size cells are the cells
\* registered with the engine in that call and returned to the caller. A
\* bind that returns an error leaves the table as it was.
AllBindOps == {"SetBuffer", "SetBufferVar", "SetBufferUnsafe", "SetBufferVarUnsafe"}

C29_BindingTable ==
    /\ [](DOMAIN resultBufferElements = DOMAIN engBuffers)
    /\ [][ret'.op \in AllBindOps =>
             IF ret'.err = "nil"
             THEN /\ DOMAIN resultBufferElements' =
                        DOMAIN resultBufferElements \cup {ret'.field}
                  /\ \A g \in DOMAIN resultBufferElements \ {ret'.field} :
                        resultBufferElements'[g] = resultBufferElements[g]
                  /\ resultBufferElements'[ret'.field]
                        = <<engBuffers'[ret'.field].ocell, engBuffers'[ret'.field].dcell>>
                  /\ resultBufferElements'[ret'.field] = <<ret'.optr, ret'.dptr>>
                  /\ ret'.dptr # 0
             ELSE resultBufferElements' = resultBufferElements]_vars

C29_Witness ==
    /\ ret.op = "SetBufferUnsafe" /\ ret.err = "EngineFailure" /\ ret.field = "a"
    /\ DOMAIN resultBufferElements = {"a", TILEDB_COORDS}
    /\ resultBufferElements["a"][1] # 0
    /\ resultBufferElements[TILEDB_COORDS][1] = 0

\* C30: accesses to a query's tables are mutually exclusive: no two calls
\* are at once inside a section that reads or writes the pin table or the
\* binding table.
InTables(g) == pc[g] \in {"locked", "store", "range"}

C30_TablesExclusive ==
    \A g, h \in Goroutines : (g # h /\ InTables(g)) => ~InTables(h)

\* The state in which one goroutine holds q.bufferMutex inside SetBuffer
\* while the other is inside SetBufferUnsafe.
UnsafeBesideLocked ==
    \E g, h \in Goroutines :
        /\ pc[g] = "locked" /\ bufferMutex = g
        /\ pc[h] = "store" /\ local[h].op = "SetBufferUnsafe"

\* Typed binds alone exclude each other.
TypedBindsExclusive ==
    \A g, h \in Goroutines : (g # h /\ pc[g] = "locked") => pc[h] # "locked"

\* C27: every bind validates the slice against the datatype the schema
\* gives the field at the time of that call: a bind succeeds only with the
\* kind of the field's datatype as the schema has it now, and it is refused
\* for its kind only when the kind differs from that one.
FieldTypeNow(name) == IF name \in AttrNames THEN schema.attrType ELSE schema.dimType

C27_BindsResolveLive ==
    [][(schema' = schema /\ ret'.op \in {"SetBuffer", "SetBufferVar"}
          /\ ret'.field \in ExampleFields) =>
          /\ ret'.err = "nil" => args'.buffer.kind = ReflectKind(FieldTypeNow(ret'.field))
          /\ ret'.err = "TypeMismatch" =>
                 args'.buffer.kind # ReflectKind(FieldTypeNow(ret'.field))]_vars

\* The attribute was bound with a uint32 slice, its datatype changed, and a
\* second bind with an int32 slice succeeded.
C27_Witness ==
    /\ ret.op = "SetBuffer" /\ ret.field = "a" /\ ret.err = "nil"
    /\ args.buffer.kind = "Int32"
    /\ schema.attrType = "TILEDB_INT32"
    /\ BagIn([kind |-> "Uint32", len |-> MaxLen], buffers)

\* C23: SubmitAsync returns while the query runs; a caller that keeps
\* polling Status comes to see a status other than TILEDB_INPROGRESS, which
\* is TILEDB_COMPLETED, TILEDB_INCOMPLETE or TILEDB_FAILED; and a query that
\* has one of these keeps it until it is submitted again.
FinalStatuses == {"TILEDB_COMPLETED", "TILEDB_INCOMPLETE", "TILEDB_FAILED"}

SawFinal == ret.op = "Status" /\ ret.err = "nil" /\ ret.elems[1] \in FinalStatuses

C23_PollingEnds ==
    /\ (pc[Caller] = "polling") ~> (pc[Caller] = "idle" /\ SawFinal)
    /\ [][(engStatus \in FinalStatuses /\ engStatus' # engStatus) =>
             (ret'.op = "SubmitAsync" /\ ret'.err = "nil"
                /\ engStatus' = "TILEDB_INPROGRESS")]_vars
    /\ [][(ret' # ret /\ ret'.op = "Status" /\ ret'.err = "nil") =>
             ret'.elems[1] = engStatus']_vars

\* SubmitAsync has returned and the query is still running.
C23_Witness ==
    /\ ret.op = "SubmitAsync" /\ ret.err = "nil"
    /\ pc[Caller] = "polling"
    /\ engStatus = "TILEDB_INPROGRESS"

\* The caller has seen the query finished after it saw it running.
PolledToTheEnd == pc[Caller] = "idle" /\ SawFinal /\ engStatus = "TILEDB_INCOMPLETE"

\* The cells of the sparse write as the caller handed them over, and those
\* of them the subarray of the read holds, bounds included.
WrittenCells ==
    IF writes = <<>> THEN {}
    ELSE LET w == writes[1].data
         IN {[coords |-> <<w[TILEDB_COORDS][2 * i - 1], w[TILEDB_COORDS][2 * i]>>,
              a |-> w["a"][i]] : i \in 1..Len(w["a"])}

InsideRead ==
    {x \in WrittenCells :
        /\ engSubarray[1] <= x.coords[1] /\ x.coords[1] <= engSubarray[2]
        /\ engSubarray[3] <= x.coords[2] /\ x.coords[2] <= engSubarray[4]}

\* A result cell as a read with the buffers bound shows it.
Shown(x) ==
    (IF TILEDB_COORDS \in DOMAIN bufData THEN x.coords ELSE <<>>)
        \o (IF "a" \in DOMAIN bufData THEN <<x.a>> ELSE <<>>)

ConsumedInRowMajor ==
    \A i, j \in DOMAIN consumed :
        (i < j /\ TILEDB_COORDS \in DOMAIN bufData) =>
            RowMajorBefore(consumed[i], consumed[j])

\* C24: after an unordered write, a row-major read of a subarray that
\* completes with its first submit reports for the attribute the number of
\* written cells inside the subarray, and delivers exactly those cells,
\* coordinates and values paired as written, in row-major order.
C24_SparseReadBack ==
    (At("done") /\ DOMAIN bufData = {"a", TILEDB_COORDS}
       /\ Len(consumed) = ret.elems["a"][2]) =>
        /\ ret.elems["a"][2] = Cardinality(InsideRead)
        /\ {consumed[i] : i \in DOMAIN consumed} =
              {x.coords \o <<x.a>> : x \in InsideRead}
        /\ ConsumedInRowMajor

\* The example: cells (1,1), (2,4), (2,3) with 1, 2, 3, read in rows 1-2 and
\* columns 2-4 (query.go 1857-1859, 1893, 1947-1948).
C24_Witness ==
    /\ At("done")
    /\ writes # <<>>
    /\ writes[1].data[TILEDB_COORDS] = <<1, 1, 2, 4, 2, 3>>
    /\ writes[1].data["a"] = <<1, 2, 3>>
    /\ writes[1].layout = "TILEDB_UNORDERED"
    /\ engSubarray = <<1, 2, 2, 4>>
    /\ DOMAIN bufData = {"a", TILEDB_COORDS}
    /\ ret.op = "ResultBufferElements" /\ ret.elems["a"][2] = 2
    /\ consumed = <<<<2, 3, 3>>, <<2, 4, 2>>>>

\* C22: a read whose buffers hold a cell but not the whole result ends
\* TILEDB_INCOMPLETE with no error and a count that is neither zero nor the
\* whole; when some buffer holds no cell every count is zero; submitting
\* again leaves the subarray, the ranges and the layout; and the loop ends
\* (unless a call fails) TILEDB_COMPLETED with every cell of the result
\* taken once.
ReadLoop == At("r_submit") \/ At("r_elems") \/ At("r_enlarge")
RoomForOne == \A f \in DOMAIN bufData : Len(bufData[f]) >= CellElems(f)

C22_IncompleteContinuation ==
    /\ []((ret.op = "Submit" /\ engStatus = "TILEDB_INCOMPLETE") => ret.err = "nil")
    /\ [][(At("r_elems") /\ engStatus = "TILEDB_INCOMPLETE" /\ ret'.err = "nil") =>
             IF RoomForOne
             THEN /\ Len(consumed') > Len(consumed)
                  /\ Len(consumed') < Cardinality(InsideRead)
                  /\ \A f \in DOMAIN ret'.elems :
                        ret'.elems[f][2] = (Len(consumed') - Len(consumed)) * CellElems(f)
             ELSE \A f \in DOMAIN ret'.elems : ret'.elems[f] = <<0, 0>>]_vars
    /\ [][(ReadLoop /\ ReadLoop') =>
             /\ engSubarray' = engSubarray
             /\ engRanges' = engRanges
             /\ engLayout' = engLayout]_vars
    /\ [](At("done") =>
             /\ engStatus = "TILEDB_COMPLETED"
             /\ Len(consumed) = Cardinality(InsideRead)
             /\ {consumed[i] : i \in DOMAIN consumed} = {Shown(x) : x \in InsideRead}
             /\ ConsumedInRowMajor)
    /\ At("r_submit") ~> (At("done") \/ At("failed"))

\* A read of three cells into a buffer for one, taken, then into a longer
\* buffer bound in its place.
C22_Witness ==
    /\ At("done")
    /\ DOMAIN bufData = {"a"}
    /\ BagCardinality(buffers) = 2
    /\ Len(consumed) = 3
    /\ ret.op = "ResultBufferElements" /\ ret.elems["a"][2] = 2

\* A coordinates buffer too short for one cell: nothing was delivered.
NothingDelivered ==
    /\ At("r_enlarge")
    /\ ret.op = "ResultBufferElements" /\ ret.elems[TILEDB_COORDS] = <<0, 0>>
    /\ engStatus = "TILEDB_INCOMPLETE"

\* The place of a cell in the buffer of a write or a read of a subarray:
\* row by row in row-major order; in global order, of whole tiles, tile by
\* tile and row by row inside a tile.
PlaceRowMajor(cell, sub) ==
    (cell[1] - sub[1]) * (sub[4] - sub[3] + 1) + (cell[2] - sub[3]) + 1
PlaceGlobal(cell, sub) ==
    LET tilesAcross == (sub[4] - sub[3] + 1) \div TileExtent
        tile == ((cell[1] - sub[1]) \div TileExtent) * tilesAcross
                    + ((cell[2] - sub[3]) \div TileExtent)
    IN tile * TileExtent * TileExtent
           + ((cell[1] - sub[1]) % TileExtent) * TileExtent
           + ((cell[2] - sub[3]) % TileExtent) + 1
ValueWrittenBy(w, cell) ==
    w.data["a"][IF w.layout = "TILEDB_GLOBAL_ORDER" THEN PlaceGlobal(cell, w.sub)
                ELSE PlaceRowMajor(cell, w.sub)]
\* The value most recently written at a cell, of the writes submitted.
LastWritten(cell) ==
    LET last == CHOOSE k \in DOMAIN writes :
                    /\ cell \in CellsOf(writes[k].sub)
                    /\ \A j \in DOMAIN writes : cell \in CellsOf(writes[j].sub) => j <= k
    IN ValueWrittenBy(writes[last], cell)
DenseReadDone ==
    At("done") /\ ret.op = "Submit" /\ ret.err = "nil" /\ queryType = "TILEDB_READ"

\* (C25) A row-major read of a subarray of a dense array gives, for every
\* cell of the subarray in row-major order, the value most recently written
\* at the cell, by row-major writes or by writes in global order followed
\* by Finalize; a step of a query leaves the cells outside its subarray as
\* they were stored; and a read of the subarray just written in row-major
\* order gives the written buffer back.
C25_DenseReadBack ==
    /\ [](DenseReadDone =>
            /\ engStatus = "TILEDB_COMPLETED"
            /\ Len(bufData["a"]) = Cardinality(CellsOf(engSubarray))
            /\ \A cell \in CellsOf(engSubarray) :
                  bufData["a"][PlaceRowMajor(cell, engSubarray)] = LastWritten(cell)
            /\ (writes[Len(writes)].layout = "TILEDB_ROW_MAJOR"
                    /\ writes[Len(writes)].sub = engSubarray) =>
                  bufData["a"] = writes[Len(writes)].data["a"])
    /\ [][\A cell \in DOMAIN engArray.stored :
              cell \notin CellsOf(SubarrayOf(DenseDomain)) =>
                  /\ cell \in DOMAIN engArray'.stored
                  /\ engArray'.stored[cell] = engArray.stored[cell]]_vars

\* The example's run (query.go 2139-2152): 1..8 written in global order to
\* [1,4,1,2] and finalized, 9..12 in row-major order to the disjoint
\* [1,4,3,3], and [1,4,1,3] read gives the Output of the example.
C25_Witness ==
    /\ DenseReadDone
    /\ Len(writes) = 2
    /\ writes[1].layout = "TILEDB_GLOBAL_ORDER" /\ writes[1].sub = <<1, 4, 1, 2>>
    /\ writes[2].layout = "TILEDB_ROW_MAJOR" /\ writes[2].sub = <<1, 4, 3, 3>>
    /\ engSubarray = <<1, 4, 1, 3>>
    /\ bufData["a"] = <<1, 2, 9, 3, 4, 10, 5, 6, 11, 7, 8, 12>>

\* A later write over cells written before: the read gives the later values.
Overwritten ==
    /\ DenseReadDone
    /\ Len(writes) = 2
    /\ writes[1].sub = <<1, 4, 1, 2>> /\ writes[2].sub = <<2, 3, 2, 3>>
    /\ engSubarray = <<1, 4, 1, 2>>
    /\ bufData["a"] = <<1, 2, 3, 9, 5, 11, 7, 8>>

====
